---- MODULE Spec2Model ----
(***************************************************************************)
(* Model of the weak-topic remediation pipeline of the self-paced-learning *)
(* Flask application: grading (/analyze), classifier reply validation,     *)
(* remedial question selection (/generate_remedial_quiz) and the           *)
(* session entries they read and write.                                    *)
(*                                                                         *)
(* Strings are sequences of one-character strings, so that strip(),        *)
(* lower() and split(",") are computed and not assumed.                    *)
(***************************************************************************)
EXTENDS Integers, Sequences, FiniteSets, TLC

(***************************************************************************)
(* Bounds of the model.                                                    *)
(***************************************************************************)
\* longest fill_in_the_blank correct_answer / learner answer drawn
MaxLen == 3
\* longest quiz drawn for a whole grading pass
MaxQuiz == 3

(***************************************************************************)
(* Strings.                                                                *)
(***************************************************************************)
Alphabet == {"a", "A", " ", ","}

RECURSIVE StringsUpTo(_)
StringsUpTo(n) ==
  IF n = 0 THEN {<<>>}
  ELSE LET shorter == StringsUpTo(n - 1)
       IN shorter \cup {Append(s, c) : s \in {t \in shorter : Len(t) = n - 1}, c \in Alphabet}

\* the default of user_submitted_answers.get(f"q{i}", "[No answer provided]")
NoAnswerProvided ==
  <<"[", "N", "o", " ", "a", "n", "s", "w", "e", "r", " ",
    "p", "r", "o", "v", "i", "d", "e", "d", "]">>

\* str.lower(), on the letters that occur in the model
LowerChar(c) ==
  CASE c = "A" -> "a"
    [] c = "N" -> "n"
    [] OTHER -> c

Lower(s) == [i \in 1..Len(s) |-> LowerChar(s[i])]

IsSpace(c) == c = " "

\* str.strip(): drop leading, then trailing, whitespace
RECURSIVE LStrip(_)
LStrip(s) == IF s # <<>> /\ IsSpace(Head(s)) THEN LStrip(Tail(s)) ELSE s

RECURSIVE RStrip(_)
RStrip(s) ==
  IF s # <<>> /\ IsSpace(s[Len(s)]) THEN RStrip(SubSeq(s, 1, Len(s) - 1)) ELSE s

Strip(s) == RStrip(LStrip(s))

\* str.split(","): scan left to right, cutting at every separator;
\* always at least one piece, empty pieces are kept
RECURSIVE SplitFrom(_, _, _, _)
SplitFrom(s, i, cur, acc) ==
  IF i > Len(s) THEN Append(acc, cur)
  ELSE IF s[i] = "," THEN SplitFrom(s, i + 1, <<>>, Append(acc, cur))
  ELSE SplitFrom(s, i + 1, Append(cur, s[i]), acc)

Split(s) == SplitFrom(s, 1, <<>>, <<>>)

Range(f) == {f[i] : i \in DOMAIN f}

\* dict.get(key, default)
Get(d, key, default) == IF key \in DOMAIN d THEN d[key] ELSE default

\* the value of a missing key read with dict.get(key)
None == "None"

(***************************************************************************)
(* Submission grader: the loop of analyze_quiz over the served questions.  *)
(* A question is a record (a dict); fields may be missing.  A submission   *)
(* maps a question position i (the key "q<i>") to the learner's answer.    *)
(***************************************************************************)
VARIABLES
  gQuiz,     \* grader input: the served questions
  gSub,      \* grader input: the submitted answers, by position
  gOut       \* grader output: done is FALSE before the pass

\* user_submitted_answers.get(f"q{i}", "[No answer provided]")
UserAnswer(answers, i) == Get(answers, i, NoAnswerProvided)

\* type multiple_choice: exact comparison with options[answer_index]
GradeMultipleChoiceIgnoreCase(q, user_answer) ==
  LET options == Get(q, "options", <<>>)
  IN IF "answer_index" \notin DOMAIN q
       THEN [status |-> "TypeError", correct |-> 0]
     ELSE IF 0 <= q["answer_index"] /\ q["answer_index"] < Len(options)
       THEN IF Lower(user_answer) = Lower(options[q["answer_index"] + 1])
              THEN [status |-> "Correct", correct |-> 1]
              ELSE [status |-> "Incorrect", correct |-> 0]
     ELSE [status |-> "Invalid Question Data", correct |-> 0]

GradeMultipleChoice(q, user_answer) ==
  LET options == Get(q, "options", <<>>)
  IN \* q_data.get("answer_index") is None when missing: 0 <= None raises
     IF "answer_index" \notin DOMAIN q
       THEN [status |-> "TypeError", correct |-> 0]
     ELSE IF 0 <= q["answer_index"] /\ q["answer_index"] < Len(options)
       THEN IF user_answer = options[q["answer_index"] + 1]
              THEN [status |-> "Correct", correct |-> 1]
              ELSE [status |-> "Incorrect", correct |-> 0]
     ELSE [status |-> "Invalid Question Data", correct |-> 0]

\* type fill_in_the_blank: trimmed, lowercased answer among the
\* trimmed, lowercased comma-separated alternatives
GradeFillInTheBlankNoStrip(q, user_answer) ==
  LET correct_answer_text == Get(q, "correct_answer", <<>>)
      pieces == Split(correct_answer_text)
      correct_answers_list == [i \in 1..Len(pieces) |-> Lower(Strip(pieces[i]))]
      user_answer_clean == Lower(user_answer)
  IN IF user_answer_clean \in Range(correct_answers_list)
       THEN [status |-> "Correct", correct |-> 1]
       ELSE [status |-> "Incorrect", correct |-> 0]

GradeFillInTheBlank(q, user_answer) ==
  LET correct_answer_text == Get(q, "correct_answer", <<>>)
      pieces == Split(correct_answer_text)
      correct_answers_list == [i \in 1..Len(pieces) |-> Lower(Strip(pieces[i]))]
      user_answer_clean == Lower(Strip(user_answer))
  IN IF user_answer_clean \in Range(correct_answers_list)
       THEN [status |-> "Correct", correct |-> 1]
       ELSE [status |-> "Incorrect", correct |-> 0]

GradeQuestionCodingCounted(q, user_answer) ==
  LET question_type == Get(q, "type", "multiple_choice")
  IN CASE question_type = "multiple_choice" -> GradeMultipleChoice(q, user_answer)
       [] question_type = "fill_in_the_blank" -> GradeFillInTheBlank(q, user_answer)
       [] question_type = "coding" -> [status |-> "For AI Review", correct |-> 1]
       [] OTHER -> [status |-> "Incorrect", correct |-> 0]

\* one iteration of the grading loop
GradeQuestion(q, user_answer) ==
  LET question_type == Get(q, "type", "multiple_choice")
  IN CASE question_type = "multiple_choice" -> GradeMultipleChoice(q, user_answer)
       [] question_type = "fill_in_the_blank" -> GradeFillInTheBlank(q, user_answer)
       [] question_type = "coding" -> [status |-> "For AI Review", correct |-> 0]
       [] OTHER -> [status |-> "Incorrect", correct |-> 0]

\* Python 3 round() of the quotient n/d: to nearest, ties to even.  The code
\* rounds the float (correct/total)*100, which agrees with the exact
\* quotient for every total below 40.
PyRound(n, d) ==
  LET q == n \div d
      r == n % d
  IN IF 2 * r < d THEN q
     ELSE IF 2 * r > d THEN q + 1
     ELSE IF q % 2 = 0 THEN q ELSE q + 1

ScorePercentageTruncated(correct_answers, total_questions) ==
  IF total_questions > 0 THEN (correct_answers * 100) \div total_questions ELSE 0

\* round((correct_answers / total_questions) * 100) if total_questions > 0 else 0
ScorePercentage(correct_answers, total_questions) ==
  IF total_questions > 0 THEN PyRound(correct_answers * 100, total_questions) ELSE 0

\* the whole pass: statuses in served order, the counters and the score;
\* raised when a comparison in the loop raises TypeError
GradePass(questions, answers) ==
  LET graded == [i \in 1..Len(questions) |->
                   GradeQuestion(questions[i], UserAnswer(answers, i - 1))]
      RECURSIVE CountCorrect(_)
      CountCorrect(n) == IF n = 0 THEN 0 ELSE CountCorrect(n - 1) + graded[n].correct
      correct_answers == CountCorrect(Len(questions))
      total_questions == Len(questions)
  IN [raised |-> \E i \in 1..Len(questions) : graded[i].status = "TypeError",
      statuses |-> [i \in 1..Len(questions) |-> graded[i].status],
      correct |-> correct_answers,
      total |-> total_questions,
      percentage |-> ScorePercentage(correct_answers, total_questions)]

(***************************************************************************)
(* Classifier reply handling of analyze_quiz.                              *)
(*                                                                         *)
(* The reply text is a sequence of lexical tokens: "{", "}", a run of      *)
(* prose, the two object members the prompt asks for and a member with     *)
(* another key, each standing for the pair together with its separating    *)
(* comma.  The value of the weak_concept_tags member is carried beside     *)
(* the text.                                                               *)
(***************************************************************************)
Prose == "prose"
FeedbackMember == "detailed_feedback"
TagsMember == "weak_concept_tags"
OtherMember == "other_member"

MemberTokens == {FeedbackMember, TagsMember, OtherMember}

ReplyTokens == {"{", "}", Prose} \cup MemberTokens

Min(S) == CHOOSE x \in S : \A y \in S : x <= y
Max(S) == CHOOSE x \in S : \A y \in S : y <= x

\* re.search(r"\{[\s\S]*\}", text): leftmost "{", then greedily to the
\* last "}"
JsonMatch(text) ==
  LET opens == {i \in 1..Len(text) : text[i] = "{"}
  IN IF opens = {} THEN [found |-> FALSE]
     ELSE LET closes == {j \in (Min(opens) + 1)..Len(text) : text[j] = "}"}
          IN IF closes = {} THEN [found |-> FALSE]
             ELSE [found |-> TRUE, group |-> SubSeq(text, Min(opens), Max(closes))]

\* json.loads of the matched text: an object is "{" members "}";
\* anything else raises JSONDecodeError
JsonLoads(group) ==
  IF /\ Len(group) >= 2
     /\ group[1] = "{"
     /\ group[Len(group)] = "}"
     /\ \A k \in 2..(Len(group) - 1) : group[k] \in MemberTokens
    THEN [ok |-> TRUE, keys |-> {group[k] : k \in 2..(Len(group) - 1)}]
    ELSE [ok |-> FALSE]

\* JSON values of the weak_concept_tags member
JsonList(items) == [kind |-> "list", items |-> items]
JsonString(chars) == [kind |-> "string", chars |-> chars]
JsonNull == [kind |-> "null"]

\* what "for topic in weak_topics" iterates over: the items of a list, the
\* characters of a string
Iterate(value) ==
  IF value.kind = "list" THEN value.items
  ELSE [i \in 1..Len(value.chars) |-> <<value.chars[i]>>]

\* [x for x in xs if x in allowed]
RECURSIVE FilterIn(_, _)
FilterIn(xs, allowed) ==
  IF xs = <<>> THEN <<>>
  ELSE IF Head(xs) \in Range(allowed)
         THEN <<Head(xs)>> \o FilterIn(Tail(xs), allowed)
         ELSE FilterIn(Tail(xs), allowed)

DefaultFeedback == "No detailed feedback provided."
ReplyFeedback == "ok"

ErrUnavailable == "Error: Could not get analysis from AI."
ErrNoJson == "Error: The analysis response did not contain a valid JSON object."
ErrInvalidFormat == "Error: The analysis response format was invalid."
ErrSessionData == "Error: Quiz session data not found."
InternalServerError == "Internal Server Error"

ValidateReplyEmptyIsFailure(reply, allowed_topic_keywords) ==
  IF reply.failed \/ reply.text = <<>>
    THEN [kind |-> "error", status |-> 500, feedback |-> ErrUnavailable]
  ELSE LET json_match == JsonMatch(reply.text)
       IN IF ~json_match.found
            THEN [kind |-> "error", status |-> 500, feedback |-> ErrNoJson]
          ELSE LET parsed == JsonLoads(json_match.group)
               IN IF ~parsed.ok
                    THEN [kind |-> "error", status |-> 500,
                          feedback |-> ErrInvalidFormat]
                  ELSE LET weak_topics == IF TagsMember \in parsed.keys
                                            THEN reply.tags ELSE JsonList(<<>>)
                       IN IF weak_topics.kind = "null"
                            THEN [kind |-> "raised", status |-> 500,
                                  feedback |-> InternalServerError]
                          ELSE IF /\ Iterate(weak_topics) # <<>>
                                  /\ FilterIn(Iterate(weak_topics),
                                              allowed_topic_keywords) = <<>>
                            THEN [kind |-> "error", status |-> 500,
                                  feedback |-> ErrInvalidFormat]
                            ELSE [kind |-> "ok", status |-> 200,
                                  feedback |-> IF FeedbackMember \in parsed.keys
                                                 THEN ReplyFeedback
                                                 ELSE DefaultFeedback,
                                  weak_topics |-> FilterIn(Iterate(weak_topics),
                                                           allowed_topic_keywords)]

ValidateReplyDefaultOnError(reply, allowed_topic_keywords) ==
  IF reply.failed \/ reply.text = <<>>
    THEN [kind |-> "error", status |-> 500, feedback |-> ErrUnavailable]
  ELSE LET json_match == JsonMatch(reply.text)
       IN IF ~json_match.found \/ ~JsonLoads(json_match.group).ok
            THEN [kind |-> "ok", status |-> 200, feedback |-> DefaultFeedback,
                  weak_topics |-> <<>>]
          ELSE LET parsed == JsonLoads(json_match.group)
                   weak_topics == IF TagsMember \in parsed.keys
                                    THEN reply.tags ELSE JsonList(<<>>)
               IN IF weak_topics.kind = "null"
                    THEN [kind |-> "raised", status |-> 500,
                          feedback |-> InternalServerError]
                    ELSE [kind |-> "ok", status |-> 200,
                          feedback |-> IF FeedbackMember \in parsed.keys
                                         THEN ReplyFeedback ELSE DefaultFeedback,
                          weak_topics |-> FilterIn(Iterate(weak_topics),
                                                   allowed_topic_keywords)]

ValidateReplyUnfiltered(reply, allowed_topic_keywords) ==
  IF reply.failed \/ reply.text = <<>>
    THEN [kind |-> "error", status |-> 500, feedback |-> ErrUnavailable]
  ELSE LET json_match == JsonMatch(reply.text)
       IN IF ~json_match.found
            THEN [kind |-> "error", status |-> 500, feedback |-> ErrNoJson]
          ELSE LET parsed == JsonLoads(json_match.group)
               IN IF ~parsed.ok
                    THEN [kind |-> "error", status |-> 500,
                          feedback |-> ErrInvalidFormat]
                  ELSE LET weak_topics == IF TagsMember \in parsed.keys
                                            THEN reply.tags ELSE JsonList(<<>>)
                       IN IF weak_topics.kind = "null"
                            THEN [kind |-> "raised", status |-> 500,
                                  feedback |-> InternalServerError]
                            ELSE [kind |-> "ok", status |-> 200,
                                  feedback |-> IF FeedbackMember \in parsed.keys
                                                 THEN ReplyFeedback
                                                 ELSE DefaultFeedback,
                                  weak_topics |-> Iterate(weak_topics)]

\* analyze_quiz from the classifier call to validated_weak_topics.  reply
\* is what call_openai_api returned: failed (None), or the text.  A null
\* weak_concept_tags makes the list comprehension raise TypeError, which
\* the handler does not catch.
ValidateReply(reply, allowed_topic_keywords) ==
  IF reply.failed \/ reply.text = <<>>
    THEN [kind |-> "error", status |-> 500, feedback |-> ErrUnavailable]
  ELSE LET json_match == JsonMatch(reply.text)
       IN IF ~json_match.found
            THEN [kind |-> "error", status |-> 500, feedback |-> ErrNoJson]
          ELSE LET parsed == JsonLoads(json_match.group)
               IN IF ~parsed.ok
                    THEN [kind |-> "error", status |-> 500,
                          feedback |-> ErrInvalidFormat]
                  ELSE LET weak_topics == IF TagsMember \in parsed.keys
                                            THEN reply.tags ELSE JsonList(<<>>)
                       IN IF weak_topics.kind = "null"
                            THEN [kind |-> "raised", status |-> 500,
                                  feedback |-> InternalServerError]
                            ELSE [kind |-> "ok", status |-> 200,
                                  feedback |-> IF FeedbackMember \in parsed.keys
                                                 THEN ReplyFeedback
                                                 ELSE DefaultFeedback,
                                  weak_topics |-> FilterIn(Iterate(weak_topics),
                                                           allowed_topic_keywords)]

\* the reply handling applied to one drawn reply and vocabulary
VARIABLES
  vReply,            \* the classifier outcome
  vAllowed,          \* allowed_topic_keywords
  vOut               \* [done |-> FALSE] until handled, then the outcome

(***************************************************************************)
(* Content repository, DataLoader and session.                             *)
(***************************************************************************)
VARIABLES
  subjectConfig,     \* subject -> content of its subject_config.json
  quizData,          \* <<subject, subtopic>> -> questions of quiz_data.json
  questionPool,      \* <<subject, subtopic>> -> questions of question_pool.json
  lessonPlans,       \* <<subject, subtopic>> -> lessons of lesson_plans.json
  cache,             \* DataLoader._cache: cache key -> loaded subject config
  session,           \* the flask session: key -> value
  classifier,        \* the classifier exchange of the request being answered
  response,          \* the response to the last request
  vocabWhenWritten   \* history: weak_topics key -> vocabulary read by the
                     \* analysis that wrote it

\* In the session specifications only subject_config.json is rewritten, so
\* the handlers read the other files directly: a cached read of a file
\* that is never rewritten returns what the file holds.  The DataLoader
\* specification rewrites lesson files and reads them through the cache.

\* f"{subject}_{subtopic}_{key_type}"; an identifier is a sequence of
\* characters, a key type is one token
get_session_key(subject, subtopic, key_type) ==
  subject \o <<"_">> \o subtopic \o <<"_", key_type>>

KeyCurrentSubject == <<"current_subject">>
KeyCurrentSubtopic == <<"current_subtopic">>
KeyQuizGenerationError == <<"quiz_generation_error">>
KeyAdminOverride == <<"admin_override">>

\* the characters of the key types and file types that session and cache
\* keys end with
NameChars ==
  ("current_quiz_type" :>
       <<"c", "u", "r", "r", "e", "n", "t", "_", "q", "u", "i", "z", "_",
         "t", "y", "p", "e">>)
  @@ ("questions_served_for_analysis" :>
       <<"q", "u", "e", "s", "t", "i", "o", "n", "s", "_", "s", "e", "r",
         "v", "e", "d", "_", "f", "o", "r", "_", "a", "n", "a", "l", "y",
         "s", "i", "s">>)
  @@ ("weak_topics" :>
       <<"w", "e", "a", "k", "_", "t", "o", "p", "i", "c", "s">>)
  @@ ("recommended_lessons" :>
       <<"r", "e", "c", "o", "m", "m", "e", "n", "d", "e", "d", "_", "l",
         "e", "s", "s", "o", "n", "s">>)
  @@ ("current_remedial_quiz_questions" :>
       <<"c", "u", "r", "r", "e", "n", "t", "_", "r", "e", "m", "e", "d",
         "i", "a", "l", "_", "q", "u", "i", "z", "_", "q", "u", "e", "s",
         "t", "i", "o", "n", "s">>)
  @@ ("topics_for_current_remedial_quiz" :>
       <<"t", "o", "p", "i", "c", "s", "_", "f", "o", "r", "_", "c", "u",
         "r", "r", "e", "n", "t", "_", "r", "e", "m", "e", "d", "i", "a",
         "l", "_", "q", "u", "i", "z">>)
  @@ ("current_subject" :>
       <<"c", "u", "r", "r", "e", "n", "t", "_", "s", "u", "b", "j", "e",
         "c", "t">>)
  @@ ("current_subtopic" :>
       <<"c", "u", "r", "r", "e", "n", "t", "_", "s", "u", "b", "t", "o",
         "p", "i", "c">>)
  @@ ("quiz_generation_error" :>
       <<"q", "u", "i", "z", "_", "g", "e", "n", "e", "r", "a", "t", "i",
         "o", "n", "_", "e", "r", "r", "o", "r">>)
  @@ ("admin_override" :>
       <<"a", "d", "m", "i", "n", "_", "o", "v", "e", "r", "r", "i", "d",
         "e">>)
  @@ ("config" :>
       <<"c", "o", "n", "f", "i", "g">>)
  @@ ("quiz" :>
       <<"q", "u", "i", "z">>)
  @@ ("questions" :>
       <<"q", "u", "e", "s", "t", "i", "o", "n", "s">>)
  @@ ("lessons" :>
       <<"l", "e", "s", "s", "o", "n", "s">>)
  @@ ("videos" :>
       <<"v", "i", "d", "e", "o", "s">>)

\* a key as the string it is: its characters, with the characters of the
\* key type or file type it ends with
RECURSIVE KeyChars(_)
KeyChars(key) ==
  IF key = <<>> THEN <<>>
  ELSE (IF Head(key) \in DOMAIN NameChars THEN NameChars[Head(key)]
        ELSE <<Head(key)>>) \o KeyChars(Tail(key))

\* str.startswith
StartsWith(key, prefix) ==
  LET k == KeyChars(key)
      p == KeyChars(prefix)
  IN Len(p) <= Len(k) /\ SubSeq(k, 1, Len(p)) = p

\* session[key] = value
Put(s, key, value) ==
  [k \in DOMAIN s \cup {key} |-> IF k = key THEN value ELSE s[k]]

\* session.pop(key, None) for every key of keys
Pop(s, keys) == [k \in DOMAIN s \ keys |-> s[k]]

\* DataLoader._get_cache_key(subject, file_type="config")
ConfigCacheKey(subject) == subject \o <<"_", "config">>

\* DataLoader.load_subject_config: the cached entry when there is one,
\* else the file, cached when it was found
LoadSubjectConfig(c, subject) ==
  IF ConfigCacheKey(subject) \in DOMAIN c
    THEN [found |-> TRUE, data |-> c[ConfigCacheKey(subject)], cache |-> c]
  ELSE IF subject \in DOMAIN subjectConfig
    THEN [found |-> TRUE, data |-> subjectConfig[subject],
          cache |-> Put(c, ConfigCacheKey(subject), subjectConfig[subject])]
  ELSE [found |-> FALSE, cache |-> c]

\* DataLoader.get_subject_keywords, on the loaded config
SubjectKeywords(loaded) ==
  IF loaded.found THEN loaded.data.allowed_keywords ELSE <<>>

\* DataLoader.validate_subject_subtopic: the directory and its
\* quiz_data.json exist
ValidateSubjectSubtopic(subject, subtopic) == <<subject, subtopic>> \in DOMAIN quizData

\* DataLoader.get_quiz_questions
GetQuizQuestions(subject, subtopic) == Get(quizData, <<subject, subtopic>>, <<>>)

\* DataLoader.get_question_pool_questions
GetQuestionPool(subject, subtopic) == Get(questionPool, <<subject, subtopic>>, <<>>)

\* check_prerequisites, on the loaded config
CheckPrerequisites(loaded, subtopic) ==
  IF ~loaded.found THEN [met |-> TRUE, missing |-> <<>>]
  ELSE LET entries == {i \in 1..Len(loaded.data.subtopics) :
                         loaded.data.subtopics[i].id = subtopic}
           prerequisites == IF entries = {} THEN <<>>
                            ELSE loaded.data.subtopics[Min(entries)].prerequisites
       IN IF prerequisites = <<>> THEN [met |-> TRUE, missing |-> <<>>]
          ELSE [met |-> FALSE, missing |-> prerequisites]

\* the lessons of one subtopic that carry a target tag, in file order
RECURSIVE MatchingLessons(_, _, _, _)
MatchingLessons(subject, subtopic_id, lessons, target_tags) ==
  IF lessons = <<>> THEN <<>>
  ELSE LET lesson_data == Head(lessons)
           lesson_tags == Range(Get(lesson_data, "tags", <<>>))
           rest == MatchingLessons(subject, subtopic_id, Tail(lessons), target_tags)
       IN IF lesson_tags \cap Range(target_tags) # {}
            THEN << [subject |-> subject,
                     subtopic |-> subtopic_id,
                     lesson_id |-> lesson_data.lesson_id,
                     title |-> Get(lesson_data, "title", <<>>),
                     tags |-> Get(lesson_data, "tags", <<>>),
                     matching_tags |-> lesson_tags \cap Range(target_tags)] >> \o rest
            ELSE rest

RECURSIVE MatchingInSubtopics(_, _, _)
MatchingInSubtopics(subject, subtopics, target_tags) ==
  IF subtopics = <<>> THEN <<>>
  ELSE MatchingLessons(subject, Head(subtopics).id,
                       Get(lessonPlans, <<subject, Head(subtopics).id>>, <<>>),
                       target_tags)
       \o MatchingInSubtopics(subject, Tail(subtopics), target_tags)

FindLessonsByTagsFirstSubtopic(loaded, subject, target_tags) ==
  IF ~loaded.found THEN <<>>
  ELSE MatchingInSubtopics(subject, SubSeq(loaded.data.subtopics, 1, 1), target_tags)

\* DataLoader.find_lessons_by_tags, on the loaded config: every subtopic of
\* the subject's config, in config order.  matching_tags is kept as a set.
FindLessonsByTags(loaded, subject, target_tags) ==
  IF ~loaded.found THEN <<>>
  ELSE MatchingInSubtopics(subject, loaded.data.subtopics, target_tags)

(***************************************************************************)
(* Request handlers.                                                       *)
(***************************************************************************)
repoVars == <<subjectConfig, quizData, questionPool, lessonPlans>>

NoExchange == [called |-> FALSE]

\* the weak_topics entries still in the session keep their history
Remembered(history, s) == [k \in DOMAIN history \cap DOMAIN s |-> history[k]]

ClearScopeKeepsWeakTopics(s, subject, subtopic) ==
  LET session_prefix == subject \o <<"_">> \o subtopic
      keys_to_remove == {key \in DOMAIN s : StartsWith(key, session_prefix)}
  IN Pop(s, keys_to_remove \ {get_session_key(subject, subtopic, "weak_topics")})

\* the clearing of quiz_page: every key that starts with
\* f"{subject}_{subtopic}" is popped
ClearScope(s, subject, subtopic) ==
  LET session_prefix == subject \o <<"_">> \o subtopic
      keys_to_remove == {key \in DOMAIN s : StartsWith(key, session_prefix)}
  IN Pop(s, keys_to_remove)

\* GET /quiz/<subject>/<subtopic>
quiz_page(subject, subtopic) ==
  LET admin_override == Get(session, KeyAdminOverride, FALSE)
      loaded == LoadSubjectConfig(cache, subject)
      prerequisites == CheckPrerequisites(loaded, subtopic)
      cleared == ClearScope(session, subject, subtopic)
      quiz_questions == GetQuizQuestions(subject, subtopic)
  IN /\ classifier' = NoExchange
     /\ UNCHANGED repoVars
     /\ IF ~ValidateSubjectSubtopic(subject, subtopic)
          THEN /\ response' = [op |-> "quiz", status |-> 404,
                               subject |-> subject, subtopic |-> subtopic]
               /\ UNCHANGED <<session, cache, vocabWhenWritten>>
        ELSE IF ~admin_override /\ ~prerequisites.met
          THEN /\ response' = [op |-> "quiz", status |-> 200,
                               page |-> "prerequisites_error.html",
                               subject |-> subject, subtopic |-> subtopic]
               /\ cache' = loaded.cache
               /\ UNCHANGED <<session, vocabWhenWritten>>
        ELSE /\ cache' = IF admin_override THEN cache ELSE loaded.cache
             /\ IF quiz_questions = <<>>
                  THEN /\ session' = cleared
                       /\ response' = [op |-> "quiz", status |-> 404,
                                       subject |-> subject, subtopic |-> subtopic]
                  ELSE /\ session' =
                            Put(Put(Put(Put(cleared,
                              get_session_key(subject, subtopic, "current_quiz_type"),
                              "initial"),
                              get_session_key(subject, subtopic,
                                              "questions_served_for_analysis"),
                              quiz_questions),
                              KeyCurrentSubject, subject),
                              KeyCurrentSubtopic, subtopic)
                       /\ response' = [op |-> "quiz", status |-> 200,
                                       page |-> "quiz.html"]
             /\ vocabWhenWritten' = Remembered(vocabWhenWritten, cleared)

StoreAnalysisResetOnError(s, outcome, weak_key, lessons_key, matching_lessons) ==
  IF outcome.kind = "ok"
    THEN IF outcome.weak_topics # <<>>
           THEN Put(Put(s, weak_key, outcome.weak_topics), lessons_key, matching_lessons)
           ELSE Put(s, weak_key, outcome.weak_topics)
    ELSE Put(s, weak_key, <<>>)

\* the session writes of analyze_quiz: none unless the reply was validated;
\* then weak_topics, and recommended_lessons when there is a weak topic
StoreAnalysis(s, outcome, weak_key, lessons_key, matching_lessons) ==
  IF outcome.kind = "ok"
    THEN IF outcome.weak_topics # <<>>
           THEN Put(Put(s, weak_key, outcome.weak_topics), lessons_key, matching_lessons)
           ELSE Put(s, weak_key, outcome.weak_topics)
    ELSE s

SessionDataDefaultsToEmpty ==
  [op |-> "analyze", status |-> 200, feedback |-> DefaultFeedback,
   weak_topics |-> <<>>]

\* the answer of analyze_quiz when the session has no current scope or no
\* served questions
SessionDataError ==
  [op |-> "analyze", status |-> 400, feedback |-> ErrSessionData,
   weak_topics |-> <<>>]

HasCurrentScope ==
  KeyCurrentSubject \in DOMAIN session /\ KeyCurrentSubtopic \in DOMAIN session

\* the questions a submission is graded against
ServedQuestions ==
  IF HasCurrentScope
    THEN Get(session,
             get_session_key(session[KeyCurrentSubject], session[KeyCurrentSubtopic],
                             "questions_served_for_analysis"), <<>>)
    ELSE <<>>

\* POST /analyze with the submitted answers; reply is what the classifier
\* call returns when the handler gets that far
analyze_quiz(user_submitted_answers, reply) ==
  LET current_subject == session[KeyCurrentSubject]
      current_subtopic == session[KeyCurrentSubtopic]
      questions_for_analysis == ServedQuestions
      graded == GradePass(questions_for_analysis, user_submitted_answers)
      loaded == LoadSubjectConfig(cache, current_subject)
      allowed_topic_keywords == SubjectKeywords(loaded)
      outcome == ValidateReply(reply, allowed_topic_keywords)
      weak_key == get_session_key(current_subject, current_subtopic, "weak_topics")
      lessons_key == get_session_key(current_subject, current_subtopic,
                                     "recommended_lessons")
      matching_lessons == IF outcome.kind = "ok"
                            THEN FindLessonsByTags(loaded, current_subject,
                                                   outcome.weak_topics)
                            ELSE <<>>
  IN /\ UNCHANGED repoVars
     /\ IF ~HasCurrentScope \/ questions_for_analysis = <<>>
          THEN /\ response' = SessionDataError
               /\ classifier' = NoExchange
               /\ UNCHANGED <<session, cache, vocabWhenWritten>>
        ELSE IF graded.raised
          THEN /\ response' = [op |-> "analyze", status |-> 500,
                               feedback |-> InternalServerError]
               /\ classifier' = NoExchange
               /\ UNCHANGED <<session, cache, vocabWhenWritten>>
        ELSE /\ cache' = loaded.cache
             /\ classifier' = [called |-> TRUE,
                               allowed_keywords |-> allowed_topic_keywords,
                               reply |-> reply]
             /\ session' = StoreAnalysis(session, outcome, weak_key, lessons_key,
                                         matching_lessons)
             /\ IF outcome.kind = "ok"
                  THEN /\ vocabWhenWritten' =
                            Put(vocabWhenWritten, weak_key, allowed_topic_keywords)
                       /\ response' = [op |-> "analyze", status |-> 200,
                                       feedback |-> outcome.feedback,
                                       weak_topics |-> outcome.weak_topics,
                                       score |-> [correct |-> graded.correct,
                                                  total |-> graded.total,
                                                  percentage |-> graded.percentage]]
                  ELSE /\ response' =
                            IF outcome.kind = "raised"
                              THEN [op |-> "analyze", status |-> 500,
                                    feedback |-> outcome.feedback]
                              ELSE [op |-> "analyze", status |-> 500,
                                    feedback |-> outcome.feedback,
                                    weak_topics |-> <<>>]
                       /\ UNCHANGED vocabWhenWritten

MsgSessionError == "Session error: Please take the main quiz first."
MsgMastered == "You've mastered all identified topics! No remedial quiz needed."
MsgNoFollowUp == "We couldn't find specific follow-up questions for your weak topics. Please review the materials and try the main quiz again."
MsgNoRemedial == "No remedial quiz was available to take. Perhaps try again or review more."

RECURSIVE SelectRemedialNoDedup(_, _, _)
SelectRemedialNoDedup(question_pool, weak_topics, selected_questions_set) ==
  IF question_pool = <<>> THEN <<>>
  ELSE LET question == Head(question_pool)
           question_tags == Range(Get(question, "tags", <<>>))
       IN IF question_tags \cap Range(weak_topics) # {}
            THEN <<question>> \o SelectRemedialNoDedup(Tail(question_pool), weak_topics,
                                   selected_questions_set \cup {question.question})
            ELSE SelectRemedialNoDedup(Tail(question_pool), weak_topics,
                                       selected_questions_set)

RECURSIVE SelectRemedialSubset(_, _, _)
SelectRemedialSubset(question_pool, weak_topics, selected_questions_set) ==
  IF question_pool = <<>> THEN <<>>
  ELSE LET question == Head(question_pool)
           question_tags == Range(Get(question, "tags", <<>>))
       IN IF /\ question_tags \subseteq Range(weak_topics)
             /\ question.question \notin selected_questions_set
            THEN <<question>> \o SelectRemedialSubset(Tail(question_pool), weak_topics,
                                   selected_questions_set \cup {question.question})
            ELSE SelectRemedialSubset(Tail(question_pool), weak_topics,
                                      selected_questions_set)

\* the selection loop of generate_remedial_quiz: pool order, a question is
\* taken when its tags are not disjoint from the weak topics and its text
\* has not been taken yet
RECURSIVE SelectRemedial(_, _, _)
SelectRemedial(question_pool, weak_topics, selected_questions_set) ==
  IF question_pool = <<>> THEN <<>>
  ELSE LET question == Head(question_pool)
           question_tags == Range(Get(question, "tags", <<>>))
       IN IF /\ question_tags \cap Range(weak_topics) # {}
             /\ question.question \notin selected_questions_set
            THEN <<question>> \o SelectRemedial(Tail(question_pool), weak_topics,
                                   selected_questions_set \cup {question.question})
            ELSE SelectRemedial(Tail(question_pool), weak_topics,
                                selected_questions_set)

StoreRemedialEvenWhenEmpty(s, subject, subtopic, remedial_questions, matching_lessons, weak_topics) ==
  Put(Put(Put(Put(Put(Put(s,
    KeyQuizGenerationError, MsgNoFollowUp),
    get_session_key(subject, subtopic, "current_remedial_quiz_questions"), remedial_questions),
    get_session_key(subject, subtopic, "recommended_lessons"), matching_lessons),
    get_session_key(subject, subtopic, "questions_served_for_analysis"), remedial_questions),
    get_session_key(subject, subtopic, "current_quiz_type"), "remedial"),
    get_session_key(subject, subtopic, "topics_for_current_remedial_quiz"), weak_topics)

\* the session writes of generate_remedial_quiz once the pool was filtered:
\* the no-follow-up message when nothing was selected, the remedial quiz
\* otherwise
StoreRemedial(s, subject, subtopic, remedial_questions, matching_lessons, weak_topics) ==
  IF remedial_questions = <<>>
    THEN Put(s, KeyQuizGenerationError, MsgNoFollowUp)
    ELSE Put(Put(Put(Put(Put(s,
           get_session_key(subject, subtopic, "current_remedial_quiz_questions"), remedial_questions),
           get_session_key(subject, subtopic, "recommended_lessons"), matching_lessons),
           get_session_key(subject, subtopic, "questions_served_for_analysis"), remedial_questions),
           get_session_key(subject, subtopic, "current_quiz_type"), "remedial"),
           get_session_key(subject, subtopic, "topics_for_current_remedial_quiz"), weak_topics)

\* GET /generate_remedial_quiz
generate_remedial_quiz ==
  LET current_subject == session[KeyCurrentSubject]
      current_subtopic == session[KeyCurrentSubtopic]
      weak_topics == Get(session,
                         get_session_key(current_subject, current_subtopic,
                                         "weak_topics"), <<>>)
      question_pool == GetQuestionPool(current_subject, current_subtopic)
      loaded == LoadSubjectConfig(cache, current_subject)
      matching_lessons == FindLessonsByTags(loaded, current_subject, weak_topics)
      remedial_questions == SelectRemedial(question_pool, weak_topics, {})
      Key(key_type) == get_session_key(current_subject, current_subtopic, key_type)
  IN /\ classifier' = NoExchange
     /\ UNCHANGED <<repoVars, vocabWhenWritten>>
     /\ IF ~HasCurrentScope
          THEN /\ session' = Put(session, KeyQuizGenerationError, MsgSessionError)
               /\ response' = [op |-> "generate_remedial_quiz",
                               redirect |-> "show_results_page"]
               /\ UNCHANGED cache
        ELSE IF weak_topics = <<>>
          THEN /\ session' = Put(session, KeyQuizGenerationError, MsgMastered)
               /\ response' = [op |-> "generate_remedial_quiz",
                               redirect |-> "show_results_page"]
               /\ UNCHANGED cache
        ELSE /\ cache' = loaded.cache
             /\ session' = StoreRemedial(session, current_subject, current_subtopic,
                                         remedial_questions,
                                         matching_lessons, weak_topics)
             /\ response' = [op |-> "generate_remedial_quiz",
                             redirect |-> IF remedial_questions = <<>>
                                            THEN "show_results_page"
                                            ELSE "take_remedial_quiz_page"]

\* GET /take_remedial_quiz
take_remedial_quiz_page ==
  LET remedial_questions ==
        IF HasCurrentScope
          THEN Get(session,
                   get_session_key(session[KeyCurrentSubject],
                                   session[KeyCurrentSubtopic],
                                   "current_remedial_quiz_questions"), <<>>)
          ELSE <<>>
  IN /\ classifier' = NoExchange
     /\ UNCHANGED <<repoVars, cache, vocabWhenWritten>>
     /\ IF ~HasCurrentScope
          THEN /\ session' = Put(session, KeyQuizGenerationError, MsgSessionError)
               /\ response' = [op |-> "take_remedial_quiz",
                               redirect |-> "show_results_page"]
        ELSE IF remedial_questions = <<>>
          THEN /\ session' = Put(session, KeyQuizGenerationError, MsgNoRemedial)
               /\ response' = [op |-> "take_remedial_quiz",
                               redirect |-> "show_results_page"]
        ELSE /\ response' = [op |-> "take_remedial_quiz", status |-> 200,
                             page |-> "quiz.html", questions |-> remedial_questions]
             /\ UNCHANGED session

\* the scope the results view falls back to
DefaultSubject == <<"p", "y", "t", "h", "o", "n">>
DefaultSubtopic == <<"f", "u", "n", "c", "t", "i", "o", "n", "s">>

\* a in b, for strings
IsSubstring(a, b) ==
  \E i \in 0..(Len(b) - Len(a)) : SubSeq(b, i + 1, i + Len(a)) = a

\* get_lesson_plans: the lessons of a subtopic, in file order
GetLessonPlans(subject, subtopic) == Get(lessonPlans, <<subject, subtopic>>, <<>>)

\* lesson_relevance: the lesson's tags that contain the topic or are
\* contained in it, ignoring case
lesson_relevance(topic, lesson_data) ==
  Cardinality({tag \in Range(Get(lesson_data, "tags", <<>>)) :
                 \/ IsSubstring(Lower(topic), Lower(tag))
                 \/ IsSubstring(Lower(tag), Lower(topic))})

\* lessons_by_topic[topic]: the lesson data of every recommended lesson
\* that is still in its file and matched the topic, in recommendation order
RECURSIVE LessonsByTopic(_, _)
LessonsByTopic(recommended_lessons, topic) ==
  IF recommended_lessons = <<>> THEN <<>>
  ELSE LET lesson_info == Head(recommended_lessons)
           full_lesson_plans == GetLessonPlans(lesson_info.subject, lesson_info.subtopic)
           found == {k \in 1..Len(full_lesson_plans) :
                       full_lesson_plans[k].lesson_id = lesson_info.lesson_id}
           rest == LessonsByTopic(Tail(recommended_lessons), topic)
       IN IF found # {} /\ topic \in lesson_info.matching_tags
            THEN <<full_lesson_plans[Max(found)]>> \o rest
            ELSE rest

MostRelevantLastOfTies(lessons_list, topic) ==
  lessons_list[Max({k \in 1..Len(lessons_list) :
                      \A j \in 1..Len(lessons_list) :
                        lesson_relevance(topic, lessons_list[j])
                          <= lesson_relevance(topic, lessons_list[k])})]

MostRelevantFirstFound(lessons_list, topic) == lessons_list[1]

\* sorted(lessons_list, key=lesson_relevance, reverse=True)[0]: the sort is
\* stable, so the first lesson of the highest relevance
MostRelevant(lessons_list, topic) ==
  lessons_list[Min({k \in 1..Len(lessons_list) :
                      \A j \in 1..Len(lessons_list) :
                        lesson_relevance(topic, lessons_list[j])
                          <= lesson_relevance(topic, lessons_list[k])})]

\* LESSON_PLANS of the results view: the best lesson of each weak topic
\* that has one; when there is none at all, every lesson of the current
\* subtopic under its lesson id
LessonPlansView(s) ==
  LET current_subject == Get(s, KeyCurrentSubject, DefaultSubject)
      current_subtopic == Get(s, KeyCurrentSubtopic, DefaultSubtopic)
      recommended_lessons ==
        Get(s, get_session_key(current_subject, current_subtopic,
                               "recommended_lessons"), <<>>)
      weak_topics ==
        Get(s, get_session_key(current_subject, current_subtopic, "weak_topics"), <<>>)
      with_lessons ==
        IF recommended_lessons # <<>> /\ weak_topics # <<>>
          THEN {topic \in Range(weak_topics) :
                  LessonsByTopic(recommended_lessons, topic) # <<>>}
          ELSE {}
      fallback == GetLessonPlans(current_subject, current_subtopic)
  IN IF with_lessons # {}
       THEN [topic \in with_lessons |->
               MostRelevant(LessonsByTopic(recommended_lessons, topic), topic)]
       ELSE [lesson_id \in {fallback[k].lesson_id : k \in 1..Len(fallback)} |->
               fallback[Max({k \in 1..Len(fallback) :
                              fallback[k].lesson_id = lesson_id})]]

ConsumeGenerationErrorKept(s) == s

\* session.pop("quiz_generation_error", None)
ConsumeGenerationError(s) == Pop(s, {KeyQuizGenerationError})

\* GET /results: the pending generation error is popped and shown
show_results_page ==
  /\ session' = ConsumeGenerationError(session)
  /\ response' = [op |-> "results", status |-> 200,
                  quiz_generation_error |-> Get(session, KeyQuizGenerationError, None),
                  LESSON_PLANS |-> LessonPlansView(session)]
  /\ classifier' = NoExchange
  /\ UNCHANGED <<repoVars, cache, vocabWhenWritten>>

\* [k.strip() for k in keywords if k.strip()]
RECURSIVE StripKeywords(_)
StripKeywords(keywords) ==
  IF keywords = <<>> THEN <<>>
  ELSE IF Strip(Head(keywords)) # <<>>
         THEN <<Strip(Head(keywords))>> \o StripKeywords(Tail(keywords))
         ELSE StripKeywords(Tail(keywords))

\* PUT /admin/subjects/<subject>/keywords: the file is rewritten, the
\* DataLoader cache is left as it is
admin_update_subject_keywords(subject, keywords) ==
  /\ IF subject \notin DOMAIN subjectConfig
       THEN /\ response' = [op |-> "admin_update_subject_keywords", status |-> 404]
            /\ UNCHANGED subjectConfig
       ELSE /\ subjectConfig' =
                 [subjectConfig EXCEPT ![subject].allowed_keywords =
                                         StripKeywords(keywords)]
            /\ response' = [op |-> "admin_update_subject_keywords", status |-> 200]
  /\ classifier' = NoExchange
  /\ UNCHANGED <<quizData, questionPool, lessonPlans, cache, session, vocabWhenWritten>>

\* POST /admin/clear-cache: DataLoader.clear_cache
admin_clear_cache ==
  /\ cache' = << >>
  /\ response' = [op |-> "admin_clear_cache", status |-> 200]
  /\ classifier' = NoExchange
  /\ UNCHANGED <<repoVars, session, vocabWhenWritten>>

\* POST /admin/toggle-override
admin_toggle_override ==
  /\ session' = Put(session, KeyAdminOverride, ~Get(session, KeyAdminOverride, FALSE))
  /\ response' = [op |-> "admin_toggle_override", status |-> 200]
  /\ classifier' = NoExchange
  /\ UNCHANGED <<repoVars, cache, vocabWhenWritten>>

\* DataLoader._get_cache_key(subject, subtopic, file_type)
CacheKey(subject, subtopic, file_type) ==
  subject \o <<"_">> \o subtopic \o <<"_", file_type>>

\* DataLoader.load_subject_config, called on its own
load_subject_config(subject) ==
  LET loaded == LoadSubjectConfig(cache, subject)
  IN /\ cache' = loaded.cache
     /\ response' = [op |-> "load_subject_config", subject |-> subject,
                     data |-> IF loaded.found THEN loaded.data ELSE None]
     /\ classifier' = NoExchange
     /\ UNCHANGED <<repoVars, session, vocabWhenWritten>>

\* DataLoader.load_lesson_plans: the cached entry when there is one, else
\* the file, cached when it was found
load_lesson_plans(subject, subtopic) ==
  LET cache_key == CacheKey(subject, subtopic, "lessons")
      lessons_data == IF cache_key \in DOMAIN cache THEN cache[cache_key]
                      ELSE Get(lessonPlans, <<subject, subtopic>>, None)
  IN /\ cache' = IF cache_key \notin DOMAIN cache /\ lessons_data # None
                   THEN Put(cache, cache_key, lessons_data)
                   ELSE cache
     /\ response' = [op |-> "load_lesson_plans", subject |-> subject,
                     subtopic |-> subtopic, data |-> lessons_data]
     /\ classifier' = NoExchange
     /\ UNCHANGED <<repoVars, session, vocabWhenWritten>>

ClearedForSubjectSubtopicExactKey(c, subject, subtopic) ==
  Pop(c, {subject \o <<"_">> \o subtopic \o <<"_">>})

\* the cache after DataLoader.clear_cache_for_subject_subtopic: every key
\* that starts with f"{subject}_{subtopic}_" is deleted
ClearedForSubjectSubtopic(c, subject, subtopic) ==
  Pop(c, {key \in DOMAIN c :
            StartsWith(key, subject \o <<"_">> \o subtopic \o <<"_">>)})

\* DataLoader.clear_cache_for_subject_subtopic
clear_cache_for_subject_subtopic(subject, subtopic) ==
  /\ cache' = ClearedForSubjectSubtopic(cache, subject, subtopic)
  /\ response' = [op |-> "clear_cache_for_subject_subtopic", subject |-> subject,
                  subtopic |-> subtopic]
  /\ classifier' = NoExchange
  /\ UNCHANGED <<repoVars, session, vocabWhenWritten>>

\* lesson_plans.json of a subtopic is rewritten on disk
lesson_file_written(subject, subtopic, lessons) ==
  /\ lessonPlans' = Put(lessonPlans, <<subject, subtopic>>, lessons)
  /\ response' = [op |-> "lesson_file_written"]
  /\ classifier' = NoExchange
  /\ UNCHANGED <<subjectConfig, quizData, questionPool, cache, session,
                 vocabWhenWritten>>

\* str.replace(" ", "_")
ReplaceSpaces(s) == [i \in 1..Len(s) |-> IF s[i] = " " THEN "_" ELSE s[i]]

\* the directory of the subtopic exists: some file of it does
SubtopicDirExists(subject, subtopic) ==
  <<subject, subtopic>> \in DOMAIN quizData \cup DOMAIN questionPool
                            \cup DOMAIN lessonPlans

\* [tag for tag in tags if tag not in allowed_keywords]
InvalidTags(tags, allowed_keywords) ==
  {tags[i] : i \in {k \in 1..Len(tags) : tags[k] \notin Range(allowed_keywords)}}

\* lesson_plans["lessons"][lesson_id] = lesson_data: in place when the id
\* is there, at the end otherwise
SetLesson(lessons, lesson) ==
  IF \E k \in 1..Len(lessons) : lessons[k].lesson_id = lesson.lesson_id
    THEN [k \in 1..Len(lessons) |->
            IF lessons[k].lesson_id = lesson.lesson_id THEN lesson ELSE lessons[k]]
    ELSE Append(lessons, lesson)

\* save_lesson_to_file: the file is rewritten and the subtopic's cache
\* entries are cleared; False when the directory does not exist
save_lesson_to_file(c, subject, subtopic, lesson) ==
  IF SubtopicDirExists(subject, subtopic)
    THEN /\ lessonPlans' =
              Put(lessonPlans, <<subject, subtopic>>,
                  SetLesson(Get(lessonPlans, <<subject, subtopic>>, <<>>), lesson))
         /\ cache' = ClearedForSubjectSubtopic(c, subject, subtopic)
         /\ response' = [op |-> "admin_lesson", status |-> 200]
    ELSE /\ cache' = c
         /\ response' = [op |-> "admin_lesson", status |-> 500]
         /\ UNCHANGED lessonPlans

\* POST /admin/lessons/create
admin_create_lesson(subject, subtopic, lesson_id_field, title, tags) ==
  LET lesson_id == ReplaceSpaces(Lower(lesson_id_field))
      loaded == LoadSubjectConfig(cache, subject)
      allowed_keywords == SubjectKeywords(loaded)
      existing_lessons == Get(lessonPlans, <<subject, subtopic>>, <<>>)
  IN /\ IF <<>> \in {subject, subtopic, lesson_id, title} \/ tags = <<>>
          THEN /\ response' = [op |-> "admin_lesson", status |-> 400]
               /\ UNCHANGED <<lessonPlans, cache>>
        ELSE IF \/ InvalidTags(tags, allowed_keywords) # {}
                \/ \E k \in 1..Len(existing_lessons) :
                     existing_lessons[k].lesson_id = lesson_id
          THEN /\ response' = [op |-> "admin_lesson", status |-> 400]
               /\ cache' = loaded.cache
               /\ UNCHANGED lessonPlans
        ELSE save_lesson_to_file(loaded.cache, subject, subtopic,
                                 [lesson_id |-> lesson_id, title |-> title,
                                  tags |-> tags])
     /\ classifier' = NoExchange
     /\ UNCHANGED <<subjectConfig, quizData, questionPool, session, vocabWhenWritten>>

\* POST /admin/lessons/<subject>/<subtopic>/<lesson_id>/edit
admin_edit_lesson(subject, subtopic, lesson_id, title, tags) ==
  LET loaded == LoadSubjectConfig(cache, subject)
      allowed_keywords == SubjectKeywords(loaded)
  IN /\ IF title = <<>> \/ tags = <<>>
          THEN /\ response' = [op |-> "admin_lesson", status |-> 400]
               /\ UNCHANGED <<lessonPlans, cache>>
        ELSE IF InvalidTags(tags, allowed_keywords) # {}
          THEN /\ response' = [op |-> "admin_lesson", status |-> 400]
               /\ cache' = loaded.cache
               /\ UNCHANGED lessonPlans
        ELSE save_lesson_to_file(loaded.cache, subject, subtopic,
                                 [lesson_id |-> lesson_id, title |-> title,
                                  tags |-> tags])
     /\ classifier' = NoExchange
     /\ UNCHANGED <<subjectConfig, quizData, questionPool, session, vocabWhenWritten>>

\* POST /admin/quiz/<subject>/<subtopic>/initial: quiz_data.json is
\* written as submitted and the whole cache is cleared
admin_save_initial_quiz(subject, subtopic, quiz_title, questions) ==
  /\ IF quiz_title = <<>>
       THEN /\ response' = [op |-> "admin_save_initial_quiz", status |-> 400]
            /\ UNCHANGED <<quizData, cache>>
       ELSE /\ quizData' = Put(quizData, <<subject, subtopic>>, questions)
            /\ cache' = << >>
            /\ response' = [op |-> "admin_save_initial_quiz", status |-> 200]
  /\ classifier' = NoExchange
  /\ UNCHANGED <<subjectConfig, questionPool, lessonPlans, session, vocabWhenWritten>>

\* POST /admin/quiz/<subject>/<subtopic>/pool: question_pool.json is
\* written as submitted and the whole cache is cleared
admin_save_question_pool(subject, subtopic, questions) ==
  /\ questionPool' = Put(questionPool, <<subject, subtopic>>, questions)
  /\ cache' = << >>
  /\ response' = [op |-> "admin_save_question_pool", status |-> 200]
  /\ classifier' = NoExchange
  /\ UNCHANGED <<subjectConfig, quizData, lessonPlans, session, vocabWhenWritten>>

\* DataLoader.find_lessons_by_tags, called on its own
find_lessons_by_tags(subject, target_tags) ==
  LET loaded == LoadSubjectConfig(cache, subject)
  IN /\ cache' = loaded.cache
     /\ response' = [op |-> "find_lessons_by_tags", subject |-> subject,
                     target_tags |-> target_tags,
                     matching_lessons |->
                       FindLessonsByTags(loaded, subject, target_tags)]
     /\ classifier' = NoExchange
     /\ UNCHANGED <<repoVars, session, vocabWhenWritten>>

(***************************************************************************)
(* Grader inputs.                                                          *)
(***************************************************************************)
TagAdd == <<"a", "d", "d">>
TagSub == <<"s", "u", "b">>
TagBogus == <<"b", "o", "g", "u", "s">>

OptionLists ==
  { << <<"a">>, <<"A">> >>,
    << <<"a">>, <<"a", " ">> >>,
    << NoAnswerProvided, <<"a">> >>,
    << >> }

WideQuestions ==
  {[type |-> "multiple_choice", question |-> <<"m">>, tags |-> <<TagAdd>>,
    options |-> o, answer_index |-> k] : o \in OptionLists, k \in -1..2}
  \cup
  {[question |-> <<"m">>, tags |-> <<TagAdd>>, options |-> o, answer_index |-> k]
     : o \in OptionLists, k \in {0}}
  \cup
  {[type |-> "fill_in_the_blank", question |-> <<"f">>, tags |-> <<TagAdd>>,
    correct_answer |-> c] : c \in StringsUpTo(MaxLen) \cup {Lower(NoAnswerProvided)}}
  \cup
  {[type |-> "fill_in_the_blank", question |-> <<"f">>, tags |-> <<TagAdd>>],
   [type |-> "coding", question |-> <<"c">>, tags |-> <<TagSub>>,
    sample_solution |-> <<"a">>],
   [type |-> "essay", question |-> <<"e">>, tags |-> <<TagSub>>]}

WideAnswers == StringsUpTo(MaxLen) \cup {NoAnswerProvided}

PassQuestions ==
  {[type |-> "multiple_choice", question |-> <<"m">>, tags |-> <<TagAdd>>,
    options |-> << <<"a">>, <<"A">> >>, answer_index |-> 0],
   [type |-> "multiple_choice", question |-> <<"i">>, tags |-> <<TagAdd>>,
    options |-> << <<"a">>, <<"A">> >>, answer_index |-> 2],
   [type |-> "multiple_choice", question |-> <<"n">>, tags |-> <<TagAdd>>,
    options |-> << <<"a">>, <<"A">> >>],
   [type |-> "fill_in_the_blank", question |-> <<"f">>, tags |-> <<TagSub>>,
    correct_answer |-> <<"a", ",", " ", "A", "a">>],
   [type |-> "coding", question |-> <<"c">>, tags |-> <<TagSub>>]}

PassAnswers == {<<"a">>, <<"A", "a", " ">>}

RECURSIVE SeqsUpTo(_, _)
SeqsUpTo(S, n) ==
  IF n = 0 THEN {<<>>}
  ELSE LET shorter == SeqsUpTo(S, n - 1)
       IN shorter \cup {Append(s, x) : s \in {t \in shorter : Len(t) = n - 1}, x \in S}

\* every submission for a quiz of n questions: each position has an
\* answer or no entry
Submissions(n, answers) ==
  UNION {[D -> answers] : D \in SUBSET (0..(n - 1))}


(***************************************************************************)
(* Repository content and request inputs of the session specification.     *)
(***************************************************************************)
SubjP == <<"p">>
SubF == <<"f">>
SubF2 == <<"f", "2">>
SubE == <<"e">>
SubX == <<"x">>

Config0 ==
  [allowed_keywords |-> <<TagAdd, TagSub>>,
   subtopics |-> << [id |-> SubF, prerequisites |-> <<>>],
                    [id |-> SubF2, prerequisites |-> <<SubF>>] >>]

QuizF ==
  << [type |-> "multiple_choice", question |-> <<"m">>, tags |-> <<TagAdd>>,
      options |-> << <<"a">>, <<"A">> >>, answer_index |-> 0] >>

QuizF2 ==
  << [type |-> "coding", question |-> <<"c">>, tags |-> <<TagSub>>] >>

PoolQ(text, tags) ==
  [type |-> "fill_in_the_blank", question |-> text, tags |-> tags,
   correct_answer |-> <<"a">>]

PoolF ==
  << PoolQ(<<"1">>, <<TagAdd>>),
     PoolQ(<<"2">>, <<TagBogus>>),
     PoolQ(<<"1">>, <<TagSub>>),
     PoolQ(<<"3">>, <<TagSub, TagAdd>>) >>

PoolF2 == << PoolQ(<<"4">>, <<TagSub>>) >>

LessonsF ==
  << [lesson_id |-> <<"l", "1">>, title |-> <<"L", "1">>, tags |-> <<TagAdd>>],
     [lesson_id |-> <<"l", "2">>, title |-> <<"L", "2">>, tags |-> <<TagBogus>>] >>

LessonsF2 ==
  << [lesson_id |-> <<"l", "3">>, title |-> <<"L", "3">>,
      tags |-> <<TagAdd, <<"A", "d">> >>] >>

\* the subtopics a quiz is asked for: two that exist, one whose quiz is
\* empty, one that does not exist
QuizUrls == {<<SubjP, SubF>>, <<SubjP, SubF2>>, <<SubjP, SubE>>, <<SubjP, SubX>>}

\* keyword lists an administrator submits
AdminKeywordInputs ==
  { <<TagAdd, <<" ">> \o TagSub>>,
    << <<" ">>, TagSub \o <<" ">> >> }

ProposedTags == {TagAdd, TagSub, TagBogus}

\* longest weak_concept_tags list a reply proposes
MaxTags == 2

TagValues ==
  {JsonList(l) : l \in SeqsUpTo(ProposedTags, MaxTags)}
  \cup {JsonString(TagAdd), JsonNull}

FailedCall == [failed |-> TRUE]

\* the reply reads its weak_concept_tags value
ReadsTags(text) ==
  /\ JsonMatch(text).found
  /\ JsonLoads(JsonMatch(text).group).ok
  /\ TagsMember \in JsonLoads(JsonMatch(text).group).keys

\* the classifier outcomes over the given texts: the failed call, and every
\* text with every value of the tags member it reads
Replies(texts, values) ==
  {FailedCall} \cup
  {[failed |-> FALSE, text |-> t, tags |-> v] :
     <<t, v>> \in {p \in texts \X values :
                    p[2] = JsonList(<<>>) \/ ReadsTags(p[1])}}

\* the reply texts of the session specification: empty content, no brace,
\* braces around prose, the empty object, an object with another member
\* only, and the object the prompt asks for, wrapped in prose
SessionTexts ==
  { <<>>,
    <<Prose>>,
    <<"{", Prose, "}">>,
    <<"{", "}">>,
    <<Prose, "{", OtherMember, "}">>,
    <<Prose, "{", FeedbackMember, TagsMember, "}", Prose>> }

SessionTagValues ==
  {JsonList(<<>>), JsonList(<<TagAdd>>), JsonList(<<TagBogus, TagSub>>),
   JsonList(<<TagSub, TagAdd>>), JsonNull}

SessionReplies == Replies(SessionTexts, SessionTagValues)

SessionAnswers == {<<"a">>}

ScopeReplies ==
  Replies({<<"{", FeedbackMember, TagsMember, "}">>},
          {JsonList(<<TagAdd>>), JsonList(<<TagSub>>)})

\* longest reply text the reply handling is applied to
MaxReplyLen == 4

\* vocabularies the reply handling is applied to
Vocabularies == {<<TagAdd, TagSub>>, <<TagSub>>, << <<"a">>, TagAdd >>, <<>>}

\* longest question pool of the remedial specification
MaxPool == 3

\* pool questions: two with one text, one with a tag outside the weak
\* topics, one without tags
RemedialPoolQuestions ==
  { PoolQ(<<"1">>, <<TagAdd>>),
    PoolQ(<<"1">>, <<TagSub>>),
    PoolQ(<<"2">>, <<TagSub, TagBogus>>),
    [type |-> "fill_in_the_blank", question |-> <<"4">>,
     correct_answer |-> <<"a">>] }

RemedialReplies ==
  Replies({<<"{", FeedbackMember, TagsMember, "}">>},
          {JsonList(<<TagAdd>>), JsonList(<<TagSub>>),
           JsonList(<<TagSub, TagAdd>>)})

(***************************************************************************)
(* Specifications.                                                         *)
(***************************************************************************)
gvars == <<gQuiz, gSub, gOut, vReply, vAllowed, vOut>>

svars == <<subjectConfig, quizData, questionPool, lessonPlans, cache, session,
           classifier, response, vocabWhenWritten>>

vars == <<gvars, svars>>

\* after construction: the content on disk, an empty cache, an empty session
ContentInit(pool) ==
  /\ subjectConfig = (SubjP :> Config0)
  /\ quizData = (<<SubjP, SubF>> :> QuizF) @@ (<<SubjP, SubF2>> :> QuizF2)
                @@ (<<SubjP, SubE>> :> <<>>)
  /\ questionPool = (<<SubjP, SubF>> :> pool) @@ (<<SubjP, SubF2>> :> PoolF2)
  /\ lessonPlans = (<<SubjP, SubF>> :> LessonsF) @@ (<<SubjP, SubF2>> :> LessonsF2)

FreshSession ==
  /\ cache = << >>
  /\ session = << >>
  /\ classifier = NoExchange
  /\ response = [op |-> "none"]
  /\ vocabWhenWritten = << >>

SessionInit == ContentInit(PoolF) /\ FreshSession

GraderIdle ==
  /\ gQuiz = <<>>
  /\ gSub = << >>
  /\ gOut = [done |-> FALSE]
  /\ vReply = FailedCall
  /\ vAllowed = <<>>
  /\ vOut = [done |-> FALSE]

Init == SessionInit /\ GraderIdle

QuizPage ==
  /\ \E url \in QuizUrls : quiz_page(url[1], url[2])
  /\ UNCHANGED gvars

Analyze ==
  /\ \E reply \in SessionReplies :
       \E user_submitted_answers \in
            Submissions(Len(ServedQuestions), SessionAnswers) :
         analyze_quiz(user_submitted_answers, reply)
  /\ UNCHANGED gvars

GenerateRemedialQuiz == generate_remedial_quiz /\ UNCHANGED gvars

TakeRemedialQuiz == take_remedial_quiz_page /\ UNCHANGED gvars

ShowResults == show_results_page /\ UNCHANGED gvars

AdminUpdateSubjectKeywords ==
  /\ \E subject \in {SubjP, SubX} : \E keywords \in AdminKeywordInputs :
       admin_update_subject_keywords(subject, keywords)
  /\ UNCHANGED gvars

AdminClearCache == admin_clear_cache /\ UNCHANGED gvars

Next ==
  \/ QuizPage
  \/ Analyze
  \/ GenerateRemedialQuiz
  \/ TakeRemedialQuiz
  \/ ShowResults
  \/ AdminUpdateSubjectKeywords
  \/ AdminClearCache

Spec == Init /\ [][Next]_vars

\* the grader applied to drawn inputs
GradeInit ==
  /\ \/ /\ gQuiz \in {<<q>> : q \in WideQuestions}
        /\ gSub \in Submissions(1, WideAnswers)
     \/ /\ gQuiz \in SeqsUpTo(PassQuestions, MaxQuiz)
        /\ gSub \in Submissions(Len(gQuiz), PassAnswers)
  /\ gOut = [done |-> FALSE]
  /\ vReply = FailedCall
  /\ vAllowed = <<>>
  /\ vOut = [done |-> FALSE]
  /\ SessionInit

\* the grading loop and the score of analyze_quiz, applied to the input
Grade ==
  /\ ~gOut.done
  /\ gOut' = [done |-> TRUE, result |-> GradePass(gQuiz, gSub)]
  /\ UNCHANGED <<gQuiz, gSub, vReply, vAllowed, vOut, svars>>

GradeNext == Grade

GradeSpec == GradeInit /\ [][GradeNext]_vars

\* the reply handling applied to drawn replies and vocabularies
ValidateInit ==
  /\ vReply \in Replies(SeqsUpTo(ReplyTokens, MaxReplyLen), TagValues)
  /\ vAllowed \in Vocabularies
  /\ vOut = [done |-> FALSE]
  /\ gQuiz = <<>>
  /\ gSub = << >>
  /\ gOut = [done |-> FALSE]
  /\ SessionInit

\* the reply handling of analyze_quiz, applied to the input
Validate ==
  /\ ~vOut.done
  /\ vOut' = [done |-> TRUE, result |-> ValidateReply(vReply, vAllowed)]
  /\ UNCHANGED <<vReply, vAllowed, gQuiz, gSub, gOut, svars>>

ValidateNext == Validate

ValidateSpec == ValidateInit /\ [][ValidateNext]_vars

\* the session over drawn question pools
RemedialInit ==
  /\ \E pool \in SeqsUpTo(RemedialPoolQuestions, MaxPool) : ContentInit(pool)
  /\ FreshSession
  /\ GraderIdle

RemedialAnalyze ==
  /\ \E reply \in RemedialReplies :
       \E user_submitted_answers \in Submissions(Len(ServedQuestions), {}) :
         analyze_quiz(user_submitted_answers, reply)
  /\ UNCHANGED gvars

RemedialNext ==
  \/ QuizPage
  \/ RemedialAnalyze
  \/ GenerateRemedialQuiz
  \/ TakeRemedialQuiz

RemedialSpec == RemedialInit /\ [][RemedialNext]_vars

\* the DataLoader on its own: loads, clears and rewritten lesson files
LoaderScopes == {<<SubjP, SubF>>, <<SubjP, SubF2>>, <<SubjP, SubX>>}

LessonFileContents == {LessonsF, LessonsF2}

LoadSubjectConfigCall ==
  /\ \E subject \in {SubjP, SubX} : load_subject_config(subject)
  /\ UNCHANGED gvars

LoadLessonPlans ==
  /\ \E scope \in LoaderScopes : load_lesson_plans(scope[1], scope[2])
  /\ UNCHANGED gvars

ClearCacheForSubjectSubtopic ==
  /\ \E scope \in LoaderScopes : clear_cache_for_subject_subtopic(scope[1], scope[2])
  /\ UNCHANGED gvars

LessonFileWritten ==
  /\ \E scope \in {<<SubjP, SubF>>, <<SubjP, SubF2>>} :
       \E lessons \in LessonFileContents :
         lesson_file_written(scope[1], scope[2], lessons)
  /\ UNCHANGED gvars

LoaderNext ==
  \/ LoadSubjectConfigCall
  \/ LoadLessonPlans
  \/ ClearCacheForSubjectSubtopic
  \/ AdminClearCache
  \/ LessonFileWritten

LoaderSpec == Init /\ [][LoaderNext]_vars

\* the session of an administrator who can switch the prerequisite check
\* off, so that both subtopics can be started
AdminToggleOverride == admin_toggle_override /\ UNCHANGED gvars

ScopeAnalyze ==
  /\ \E reply \in ScopeReplies :
       \E user_submitted_answers \in Submissions(Len(ServedQuestions), {}) :
         analyze_quiz(user_submitted_answers, reply)
  /\ UNCHANGED gvars

ScopeNext ==
  \/ QuizPage
  \/ ScopeAnalyze
  \/ GenerateRemedialQuiz
  \/ TakeRemedialQuiz
  \/ ShowResults
  \/ AdminToggleOverride

\* the content on disk, with the quiz of the first subtopic present or
\* without questions
ScopeInit ==
  /\ subjectConfig = (SubjP :> Config0)
  /\ \E quiz \in {QuizF, <<>>} :
       quizData = (<<SubjP, SubF>> :> quiz) @@ (<<SubjP, SubF2>> :> QuizF2)
                  @@ (<<SubjP, SubE>> :> <<>>)
  /\ questionPool = (<<SubjP, SubF>> :> PoolF) @@ (<<SubjP, SubF2>> :> PoolF2)
  /\ lessonPlans = (<<SubjP, SubF>> :> LessonsF) @@ (<<SubjP, SubF2>> :> LessonsF2)
  /\ FreshSession
  /\ GraderIdle

ScopeSpec == ScopeInit /\ [][ScopeNext]_vars

\* the lesson search on its own, over drawn lesson files, while a learner
\* starts quizzes
TagNowhere == <<"n", "o">>

SearchTags == {TagAdd, TagSub, TagBogus, TagNowhere}

LessonsUntagged ==
  << [lesson_id |-> <<"l", "1">>, title |-> <<"L", "4">>],
     [lesson_id |-> <<"l", "5">>, title |-> <<"L", "5">>,
      tags |-> <<TagSub, TagAdd, TagSub>>] >>

SearchLessonFiles == {LessonsF, LessonsF2, LessonsUntagged}

FindLessonsByTagsCall ==
  /\ \E subject \in {SubjP, SubX} :
       \E target_tags \in SeqsUpTo(SearchTags, MaxTags) :
         find_lessons_by_tags(subject, target_tags)
  /\ UNCHANGED gvars

FindNext ==
  \/ QuizPage
  \/ AdminToggleOverride
  \/ FindLessonsByTagsCall

FindInit ==
  /\ subjectConfig = (SubjP :> Config0)
  /\ quizData = (<<SubjP, SubF>> :> QuizF) @@ (<<SubjP, SubF2>> :> QuizF2)
                @@ (<<SubjP, SubE>> :> <<>>)
  /\ questionPool = (<<SubjP, SubF>> :> PoolF) @@ (<<SubjP, SubF2>> :> PoolF2)
  /\ \E first \in SearchLessonFiles :
       \/ lessonPlans = (<<SubjP, SubF>> :> first)
       \/ \E second \in SearchLessonFiles :
            lessonPlans = (<<SubjP, SubF>> :> first) @@ (<<SubjP, SubF2>> :> second)
  /\ FreshSession
  /\ GraderIdle

FindSpec == FindInit /\ [][FindNext]_vars

\* the session over drawn subject configurations: the usual one, one with
\* an empty keyword list, and none
ConfigNoKeywords ==
  [allowed_keywords |-> <<>>, subtopics |-> Config0.subtopics]

VocabReplies ==
  Replies({ <<"{", FeedbackMember, TagsMember, "}">>,
            <<Prose, "{", TagsMember, "}">>,
            <<"{", Prose, "}">> },
          {JsonList(<<>>), JsonList(<<TagAdd>>), JsonList(<<TagBogus, TagAdd>>),
           JsonList(<<TagBogus>>)})

VocabAnalyze ==
  /\ \E reply \in VocabReplies :
       \E user_submitted_answers \in
            Submissions(Len(ServedQuestions), SessionAnswers) :
         analyze_quiz(user_submitted_answers, reply)
  /\ UNCHANGED gvars

VocabNext ==
  \/ QuizPage
  \/ VocabAnalyze
  \/ GenerateRemedialQuiz
  \/ ShowResults

VocabInit ==
  /\ subjectConfig \in {(SubjP :> Config0), (SubjP :> ConfigNoKeywords), << >>}
  /\ quizData = (<<SubjP, SubF>> :> QuizF) @@ (<<SubjP, SubF2>> :> QuizF2)
                @@ (<<SubjP, SubE>> :> <<>>)
  /\ questionPool = (<<SubjP, SubF>> :> PoolF) @@ (<<SubjP, SubF2>> :> PoolF2)
  /\ lessonPlans = (<<SubjP, SubF>> :> LessonsF) @@ (<<SubjP, SubF2>> :> LessonsF2)
  /\ FreshSession
  /\ GraderIdle

VocabSpec == VocabInit /\ [][VocabNext]_vars

\* the content administration: lessons, quizzes, pools and keywords, on a
\* repository whose tags are all in the vocabulary
AdminLessonsF ==
  << [lesson_id |-> <<"l", "1">>, title |-> <<"L", "1">>, tags |-> <<TagAdd>>] >>

AdminPoolF == << PoolQ(<<"1">>, <<TagAdd>>), PoolQ(<<"3">>, <<TagSub, TagAdd>>) >>

AdminScopes == {<<SubjP, SubF>>, <<SubjP, SubX>>}

AdminLessonIds == {<<"l", "1">>, <<"L", " ">>}

AdminTitles == {<<"T">>, <<>>}

AdminTagLists == {<<>>, <<TagSub>>, <<TagAdd, TagBogus>>}

AdminQuestionLists ==
  {<<PoolQ(<<"5">>, <<TagSub>>)>>, <<PoolQ(<<"6">>, <<TagBogus>>)>>}

AdminCreateLesson ==
  /\ \E scope \in AdminScopes, lesson_id \in AdminLessonIds,
        title \in AdminTitles, tags \in AdminTagLists :
       admin_create_lesson(scope[1], scope[2], lesson_id, title, tags)
  /\ UNCHANGED gvars

AdminEditLesson ==
  /\ \E scope \in AdminScopes, lesson_id \in {<<"l", "1">>},
        title \in AdminTitles, tags \in AdminTagLists :
       admin_edit_lesson(scope[1], scope[2], lesson_id, title, tags)
  /\ UNCHANGED gvars

AdminSaveInitialQuiz ==
  /\ \E quiz_title \in AdminTitles, questions \in AdminQuestionLists :
       admin_save_initial_quiz(SubjP, SubF, quiz_title, questions)
  /\ UNCHANGED gvars

AdminSaveQuestionPool ==
  /\ \E questions \in AdminQuestionLists :
       admin_save_question_pool(SubjP, SubF, questions)
  /\ UNCHANGED gvars

AdminNext ==
  \/ AdminCreateLesson
  \/ AdminEditLesson
  \/ AdminSaveInitialQuiz
  \/ AdminSaveQuestionPool
  \/ AdminUpdateSubjectKeywords

AdminInit ==
  /\ subjectConfig = (SubjP :> Config0)
  /\ quizData = (<<SubjP, SubF>> :> QuizF) @@ (<<SubjP, SubF2>> :> QuizF2)
  /\ questionPool = (<<SubjP, SubF>> :> AdminPoolF) @@ (<<SubjP, SubF2>> :> PoolF2)
  /\ lessonPlans = (<<SubjP, SubF>> :> AdminLessonsF)
  /\ FreshSession
  /\ GraderIdle

AdminSpec == AdminInit /\ [][AdminNext]_vars

\* the results view over drawn lesson files
ResultsReplies ==
  Replies({<<"{", FeedbackMember, TagsMember, "}">>},
          {JsonList(<<TagAdd>>), JsonList(<<TagSub>>), JsonList(<<TagSub, TagAdd>>)})

ResultsAnalyze ==
  /\ \E reply \in ResultsReplies :
       \E user_submitted_answers \in Submissions(Len(ServedQuestions), {}) :
         analyze_quiz(user_submitted_answers, reply)
  /\ UNCHANGED gvars

ResultsNext ==
  \/ QuizPage
  \/ ResultsAnalyze
  \/ ShowResults

ResultsSpec == FindInit /\ [][ResultsNext]_vars

\* the DataLoader over identifiers that contain "_": subject p with
\* subtopic f_q, subject p_f with subtopic q
SubjPF == <<"p", "_", "f">>
SubQ == <<"q">>
SubFQ == <<"f", "_", "q">>

CacheKeyScopes ==
  {<<SubjP, SubFQ>>, <<SubjPF, SubQ>>, <<SubjP, SubF>>, <<SubjP, SubX>>}

CacheKeyLoadSubjectConfig ==
  /\ \E subject \in {SubjP, SubjPF, SubX} : load_subject_config(subject)
  /\ UNCHANGED gvars

CacheKeyLoadLessonPlans ==
  /\ \E scope \in CacheKeyScopes : load_lesson_plans(scope[1], scope[2])
  /\ UNCHANGED gvars

CacheKeyClearForSubjectSubtopic ==
  /\ \E scope \in CacheKeyScopes : clear_cache_for_subject_subtopic(scope[1], scope[2])
  /\ UNCHANGED gvars

CacheKeyNext ==
  \/ CacheKeyLoadSubjectConfig
  \/ CacheKeyLoadLessonPlans
  \/ CacheKeyClearForSubjectSubtopic
  \/ AdminClearCache

CacheKeyInit ==
  /\ subjectConfig =
       (SubjP :> [allowed_keywords |-> <<TagAdd, TagSub>>,
                  subtopics |-> << [id |-> SubF, prerequisites |-> <<>>],
                                   [id |-> SubFQ, prerequisites |-> <<>>] >>])
       @@ (SubjPF :> [allowed_keywords |-> <<TagAdd>>,
                      subtopics |-> << [id |-> SubQ, prerequisites |-> <<>>] >>])
  /\ quizData = (<<SubjP, SubF>> :> QuizF) @@ (<<SubjP, SubFQ>> :> QuizF)
                @@ (<<SubjPF, SubQ>> :> QuizF2)
  /\ questionPool = << >>
  /\ lessonPlans = (<<SubjP, SubF>> :> LessonsUntagged)
                   @@ (<<SubjP, SubFQ>> :> LessonsF)
                   @@ (<<SubjPF, SubQ>> :> LessonsF2)
  /\ FreshSession
  /\ GraderIdle

CacheKeySpec == CacheKeyInit /\ [][CacheKeyNext]_vars

\* the session over two subjects, one of whose identifiers starts with
\* the other's followed by "_": subject p with subtopic f, subject p_f
\* with subtopic q
PrefixUrls == {<<SubjP, SubF>>, <<SubjPF, SubQ>>, <<SubjP, SubX>>}

PrefixQuizPage ==
  /\ \E url \in PrefixUrls : quiz_page(url[1], url[2])
  /\ UNCHANGED gvars

PrefixNext ==
  \/ PrefixQuizPage
  \/ ScopeAnalyze
  \/ GenerateRemedialQuiz
  \/ TakeRemedialQuiz

PrefixInit ==
  /\ subjectConfig =
       (SubjP :> [allowed_keywords |-> <<TagAdd, TagSub>>,
                  subtopics |-> << [id |-> SubF, prerequisites |-> <<>>] >>])
       @@ (SubjPF :> [allowed_keywords |-> <<TagAdd, TagSub>>,
                      subtopics |-> << [id |-> SubQ, prerequisites |-> <<>>] >>])
  /\ quizData = (<<SubjP, SubF>> :> QuizF) @@ (<<SubjPF, SubQ>> :> QuizF2)
  /\ questionPool = (<<SubjP, SubF>> :> PoolF) @@ (<<SubjPF, SubQ>> :> PoolF2)
  /\ lessonPlans = (<<SubjP, SubF>> :> LessonsF) @@ (<<SubjPF, SubQ>> :> LessonsF2)
  /\ FreshSession
  /\ GraderIdle

PrefixSpec == PrefixInit /\ [][PrefixNext]_vars

(***************************************************************************)
(* Grading properties, checked under GradeSpec.                            *)
(***************************************************************************)
Graded == gOut.done /\ ~gOut.result.raised

HasEntry(i) == (i - 1) \in DOMAIN gSub

IsType(q, t) == "type" \in DOMAIN q /\ q["type"] = t

\* the maximal comma-free segments of s
CommaPieces(s) ==
  {SubSeq(s, i, j) : <<i, j>> \in
     {p \in (1..(Len(s) + 1)) \X (0..Len(s)) :
        /\ p[2] >= p[1] - 1
        /\ (p[1] = 1 \/ s[p[1] - 1] = ",")
        /\ (p[2] = Len(s) \/ s[p[2] + 1] = ",")
        /\ \A k \in p[1]..p[2] : s[k] # ","}}

\* s without its leading and trailing blanks
Trimmed(s) ==
  LET solid == {i \in 1..Len(s) : s[i] # " "}
  IN IF solid = {} THEN <<>>
     ELSE SubSeq(s, CHOOSE i \in solid : \A k \in solid : i <= k,
                    CHOOSE j \in solid : \A k \in solid : k <= j)

\* C5: a multiple_choice question with an answer_index in 0..len(options)-1
\* is Correct exactly when the submitted answer is options[answer_index],
\* character for character, and Incorrect for any other answer; with an
\* answer_index out of range it is Invalid Question Data.
C5_MultipleChoiceGrading ==
  Graded =>
    \A i \in 1..Len(gQuiz) :
      LET q == gQuiz[i]
          st == gOut.result.statuses[i]
      IN (IsType(q, "multiple_choice") /\ HasEntry(i)
            /\ "answer_index" \in DOMAIN q /\ "options" \in DOMAIN q) =>
           LET k == q["answer_index"]
               inRange == k \in 0..(Len(q["options"]) - 1)
           IN /\ (inRange /\ gSub[i - 1] = q["options"][k + 1]) => st = "Correct"
              /\ (inRange /\ gSub[i - 1] # q["options"][k + 1]) => st = "Incorrect"
              /\ ~inRange => st = "Invalid Question Data"

\* an answer that differs from the right option only by case is Incorrect
C5_Witness ==
  /\ Graded
  /\ Len(gQuiz) = 1
  /\ IsType(gQuiz[1], "multiple_choice")
  /\ HasEntry(1)
  /\ "answer_index" \in DOMAIN gQuiz[1]
  /\ gQuiz[1]["answer_index"] = 0
  /\ gQuiz[1]["options"] = << <<"a">>, <<"A">> >>
  /\ gSub[0] = <<"A">>
  /\ gOut.result.statuses = <<"Incorrect">>

\* C6: a fill_in_the_blank question is Correct if and only if the answer,
\* trimmed and lowercased, is one of the comma-separated alternatives of
\* correct_answer, each trimmed and lowercased; otherwise it is Incorrect.
C6_FillInTheBlankGrading ==
  Graded =>
    \A i \in 1..Len(gQuiz) :
      LET q == gQuiz[i]
          st == gOut.result.statuses[i]
      IN (IsType(q, "fill_in_the_blank") /\ HasEntry(i)
            /\ "correct_answer" \in DOMAIN q) =>
           LET alternatives == {Lower(Trimmed(p)) : p \in CommaPieces(q["correct_answer"])}
               matches == Lower(Trimmed(gSub[i - 1])) \in alternatives
           IN /\ st \in {"Correct", "Incorrect"}
              /\ st = "Correct" <=> matches

\* " A" matches the second alternative of "a,A" only after trimming and
\* lowercasing both sides
C6_Witness ==
  /\ Graded
  /\ Len(gQuiz) = 1
  /\ IsType(gQuiz[1], "fill_in_the_blank")
  /\ HasEntry(1)
  /\ "correct_answer" \in DOMAIN gQuiz[1]
  /\ gQuiz[1]["correct_answer"] = <<" ", ",", "A">>
  /\ gSub[0] = <<"a", " ">>
  /\ gOut.result.statuses = <<"Correct">>

\* C7: a question position with no entry in the submitted answers is never
\* graded Correct, so it never adds to the correct count (a consequence of
\* "is graded Incorrect", for the types that are graded automatically).
C7_NoEntryNeverCorrect ==
  Graded =>
    \A i \in 1..Len(gQuiz) :
      ~HasEntry(i) => gOut.result.statuses[i] # "Correct"

\* C8: the reported score: total is the number of served questions,
\* 0 <= correct <= total, 0 <= percentage <= 100, the percentage is 0 when
\* total is 0 and otherwise an integer nearest to 100 * correct / total.
C8_ScorePercentage ==
  Graded =>
    LET r == gOut.result
        diff == r.percentage * r.total - 100 * r.correct
    IN /\ r.total = Len(gQuiz)
       /\ 0 <= r.correct /\ r.correct <= r.total
       /\ 0 <= r.percentage /\ r.percentage <= 100
       /\ r.total = 0 => r.percentage = 0
       /\ r.total > 0 => (2 * diff <= r.total /\ -2 * diff <= r.total)

\* two of three correct: 66.67 is reported as 67
C8_Witness ==
  /\ Graded
  /\ gOut.result.total = 3
  /\ gOut.result.correct = 2
  /\ gOut.result.percentage = 67


(***************************************************************************)
(* Reply handling properties: C1, C2 and C4 are checked under Spec, C3     *)
(* under ValidateSpec.                                                     *)
(***************************************************************************)
\* the entry of the current scope
ScopeKey(s, key_type) ==
  get_session_key(s[KeyCurrentSubject], s[KeyCurrentSubtopic], key_type)

IsKeyOfType(key, key_type) == key # <<>> /\ key[Len(key)] = key_type

\* the text from its first "{" to its last "}" is an object whose members
\* all satisfy P
ReadsAsObject(text, P(_)) ==
  \E i, j \in 1..Len(text) :
    /\ i < j
    /\ text[i] = "{" /\ \A k \in 1..(i - 1) : text[k] # "{"
    /\ text[j] = "}" /\ \A k \in (j + 1)..Len(text) : text[k] # "}"
    /\ \A k \in (i + 1)..(j - 1) : text[k] \in MemberTokens /\ P(text[k])

AnyMember(m) == TRUE
NeitherField(m) == m \notin {FeedbackMember, TagsMember}

\* the call returned nothing, or its reply does not read as a JSON object
Unusable(reply) == reply.failed \/ ~ReadsAsObject(reply.text, AnyMember)

\* no part of the text is a JSON object
NoObjectExtractable(text) ==
  ~\E i, j \in 1..Len(text) :
      /\ i < j
      /\ text[i] = "{"
      /\ text[j] = "}"
      /\ \A k \in (i + 1)..(j - 1) : text[k] \in MemberTokens

LacksBothFields(reply) ==
  ~reply.failed /\ ReadsAsObject(reply.text, NeitherField)

\* C1: the weak topics a successful analysis returns are all in the
\* vocabulary that analysis read and are what it stored for the scope; the
\* weak topics stored under any scope are all in the vocabulary read by
\* the analysis that wrote them.
C1_ValidatedTagsWithinVocabulary ==
  /\ (classifier.called /\ response.status = 200) =>
       /\ Range(response.weak_topics) \subseteq Range(classifier.allowed_keywords)
       /\ session[ScopeKey(session, "weak_topics")] = response.weak_topics
  /\ \A key \in DOMAIN session :
       IsKeyOfType(key, "weak_topics") =>
         /\ key \in DOMAIN vocabWhenWritten
         /\ Range(session[key]) \subseteq Range(vocabWhenWritten[key])

\* a successful analysis whose reply proposed a tag outside the vocabulary
C1_Witness ==
  /\ classifier.called
  /\ response.status = 200
  /\ ~classifier.reply.failed
  /\ classifier.reply.tags = JsonList(<<TagBogus, TagSub>>)
  /\ response.weak_topics = <<TagSub>>
  /\ session[ScopeKey(session, "weak_topics")] = <<TagSub>>

ScopeKeyTypes ==
  {"weak_topics", "recommended_lessons", "questions_served_for_analysis",
   "current_quiz_type", "current_remedial_quiz_questions",
   "topics_for_current_remedial_quiz"}

\* the entries of the current scope, as a function of their keys
ScopeEntries(s) ==
  [key \in {k \in DOMAIN s : \E t \in ScopeKeyTypes : k = ScopeKey(s, t)} |-> s[key]]

\* C2: an analysis whose classifier call returns nothing, or whose reply
\* does not read as a JSON object, leaves every entry of the current scope
\* (weak topics, recommended lessons, served questions, quiz type, remedial
\* entries) exactly as it was.
C2_NoPartialStateOnFailure ==
  [][(classifier'.called /\ Unusable(classifier'.reply)) =>
       ScopeEntries(session') = ScopeEntries(session)]_vars

\* a failed remedial analysis after a stored non-empty weak-topic list
C2_Witness ==
  /\ classifier.called
  /\ Unusable(classifier.reply)
  /\ response.status = 500
  /\ ScopeKey(session, "weak_topics") \in DOMAIN session
  /\ session[ScopeKey(session, "weak_topics")] # <<>>
  /\ session[ScopeKey(session, "current_quiz_type")] = "remedial"

\* C3: when no JSON object can be extracted from the reply text, the reply
\* handling ends in an error outcome with status 500, never in a success
\* with an empty weak-topic list.
C3_NoObjectIsAnError ==
  (vOut.done /\ ~vReply.failed /\ NoObjectExtractable(vReply.text)) =>
    /\ vOut.result.kind = "error"
    /\ vOut.result.status = 500
    /\ vOut.result.feedback \in {ErrUnavailable, ErrNoJson, ErrInvalidFormat}

\* braces around prose: a match that is not JSON
C3_Witness ==
  /\ vOut.done
  /\ ~vReply.failed
  /\ vReply.text = <<Prose, "{", Prose, "}">>
  /\ vOut.result.feedback = ErrInvalidFormat

\* C4: an analysis whose reply reads as a JSON object with neither
\* detailed_feedback nor weak_concept_tags does not succeed.
C4_LackingBothFieldsFails ==
  (classifier.called /\ LacksBothFields(classifier.reply)) =>
    response.status # 200

(***************************************************************************)
(* Remedial selection properties, checked under RemedialSpec.              *)
(***************************************************************************)
NoDuplicateText(questions) ==
  \A i, j \in 1..Len(questions) :
    i # j => questions[i].question # questions[j].question

Intersects(question, weak_topics) ==
  \E tag \in Range(weak_topics) :
    "tags" \in DOMAIN question /\ tag \in Range(question.tags)

\* positions of the first occurrence, by text, of each pool question that
\* shares a tag with the weak topics
FirstOccurrences(pool, weak_topics) ==
  {i \in 1..Len(pool) :
     /\ Intersects(pool[i], weak_topics)
     /\ \A j \in 1..(i - 1) :
          Intersects(pool[j], weak_topics) => pool[j].question # pool[i].question}

\* the subsequence of pool at the positions in I
SubsequenceAt(pool, I) ==
  LET upTo[n \in 0..Len(pool)] ==
        IF n = 0 THEN <<>>
        ELSE IF n \in I THEN Append(upTo[n - 1], pool[n]) ELSE upTo[n - 1]
  IN upTo[Len(pool)]

CurrentPool == GetQuestionPool(session[KeyCurrentSubject], session[KeyCurrentSubtopic])

\* C9: no remedial question list held by the session, stored or served,
\* has two questions with the same text.
C9_RemedialTextsDistinct ==
  \A key \in DOMAIN session :
    /\ IsKeyOfType(key, "current_remedial_quiz_questions") =>
         NoDuplicateText(session[key])
    /\ (IsKeyOfType(key, "current_quiz_type") /\ session[key] = "remedial") =>
         NoDuplicateText(session[SubSeq(key, 1, Len(key) - 1)
                                 \o <<"questions_served_for_analysis">>])

\* a remedial quiz generated from a pool in which two questions that share
\* a tag with the weak topics have the same text
C9_Witness ==
  /\ response.op = "generate_remedial_quiz"
  /\ response.redirect = "take_remedial_quiz_page"
  /\ \E i, j \in 1..Len(CurrentPool) :
       /\ i # j
       /\ CurrentPool[i].question = CurrentPool[j].question
       /\ Intersects(CurrentPool[i], session[ScopeKey(session, "weak_topics")])
       /\ Intersects(CurrentPool[j], session[ScopeKey(session, "weak_topics")])
  /\ Len(session[ScopeKey(session, "current_remedial_quiz_questions")]) = 2

\* C10: the list generate_remedial_quiz produces from non-empty weak topics
\* is the subsequence of the pool, in pool order, made of the first
\* occurrence by text of each question sharing a tag with the weak topics;
\* when that subsequence is empty nothing is generated.
C10_RemedialSelection ==
  (/\ response.op = "generate_remedial_quiz"
   /\ HasCurrentScope
   /\ Get(session, ScopeKey(session, "weak_topics"), <<>>) # <<>>) =>
    LET weak_topics == session[ScopeKey(session, "weak_topics")]
        expected == SubsequenceAt(CurrentPool,
                                  FirstOccurrences(CurrentPool, weak_topics))
    IN IF expected = <<>>
         THEN /\ response.redirect = "show_results_page"
              /\ session[KeyQuizGenerationError] = MsgNoFollowUp
         ELSE /\ response.redirect = "take_remedial_quiz_page"
              /\ session[ScopeKey(session, "current_remedial_quiz_questions")]
                   = expected
              /\ session[ScopeKey(session, "questions_served_for_analysis")]
                   = expected

\* a selection that skips a repeated text and takes a question one of
\* whose tags is not a weak topic
C10_Witness ==
  /\ response.op = "generate_remedial_quiz"
  /\ response.redirect = "take_remedial_quiz_page"
  /\ Len(CurrentPool) = 3
  /\ Len(session[ScopeKey(session, "current_remedial_quiz_questions")]) = 2
  /\ Cardinality({i \in 1..3 :
       Intersects(CurrentPool[i], session[ScopeKey(session, "weak_topics")])}) = 3
  /\ \E q \in Range(session[ScopeKey(session, "current_remedial_quiz_questions")]) :
       TagBogus \in Range(q.tags)


(***************************************************************************)
(* Results view properties, checked under Spec.                            *)
(***************************************************************************)
\* the weak topics stored for the current scope
StoredWeakTopics ==
  IF HasCurrentScope THEN Get(session, ScopeKey(session, "weak_topics"), <<>>)
  ELSE <<>>

\* C11: the lesson map a results view builds from a non-empty stored weak
\* topic list has every weak topic as a key.
C11_EveryWeakTopicIsAKey ==
  (response.op = "results" /\ StoredWeakTopics # <<>>) =>
    Range(StoredWeakTopics) \subseteq DOMAIN response.LESSON_PLANS

\* every lesson of the subject, subtopic by subtopic in the order of the
\* subject's configuration, each file in its own order
RECURSIVE LessonsOfSubtopics(_, _)
LessonsOfSubtopics(subject, subtopics) ==
  IF subtopics = <<>> THEN <<>>
  ELSE Get(lessonPlans, <<subject, Head(subtopics).id>>, <<>>)
       \o LessonsOfSubtopics(subject, Tail(subtopics))

HasTag(lesson, topic) == "tags" \in DOMAIN lesson /\ topic \in Range(lesson.tags)

\* the lesson shown for a topic: among the lessons tagged with it, the
\* first of those no other is more relevant than
ChosenLesson(lessons, topic) ==
  lessons[Min({k \in 1..Len(lessons) :
                 /\ HasTag(lessons[k], topic)
                 /\ \A j \in 1..Len(lessons) :
                      HasTag(lessons[j], topic) =>
                        lesson_relevance(topic, lessons[j])
                          <= lesson_relevance(topic, lessons[k])})]

\* the lesson map as a function of the weak topics, the scope and the
\* repository alone
ExpectedLessonPlans(weak_topics, subject, subtopic) ==
  LET lessons == LessonsOfSubtopics(subject, subjectConfig[subject].subtopics)
      covered == {topic \in Range(weak_topics) :
                    \E k \in 1..Len(lessons) : HasTag(lessons[k], topic)}
      own == Get(lessonPlans, <<subject, subtopic>>, <<>>)
  IN IF covered # {}
       THEN [topic \in covered |-> ChosenLesson(lessons, topic)]
       ELSE [lesson_id \in {own[k].lesson_id : k \in 1..Len(own)} |->
               CHOOSE lesson \in Range(own) : lesson.lesson_id = lesson_id]

\* C12: the remedial question list a generation stores and the lesson map a
\* results view shows are functions of the stored weak topics, the scope
\* and the repository content alone, whatever else the session holds and
\* whatever requests came before.
C12_RemediationIsDeterministic ==
  /\ (/\ response.op = "generate_remedial_quiz"
      /\ response.redirect = "take_remedial_quiz_page") =>
       session[ScopeKey(session, "current_remedial_quiz_questions")]
         = SubsequenceAt(CurrentPool, FirstOccurrences(CurrentPool, StoredWeakTopics))
  /\ (response.op = "results" /\ HasCurrentScope) =>
       response.LESSON_PLANS
         = ExpectedLessonPlans(StoredWeakTopics, session[KeyCurrentSubject],
                               session[KeyCurrentSubtopic])

\* a results view during a remedial quiz, after the vocabulary was edited,
\* showing for a weak topic the more relevant of two lessons
C12_Witness ==
  /\ response.op = "results"
  /\ HasCurrentScope
  /\ session[ScopeKey(session, "current_quiz_type")] = "remedial"
  /\ StoredWeakTopics = <<TagSub, TagAdd>>
  /\ subjectConfig[SubjP].allowed_keywords = <<TagSub>>
  /\ DOMAIN response.LESSON_PLANS = {TagAdd}
  /\ response.LESSON_PLANS[TagAdd].lesson_id = <<"l", "3">>

(***************************************************************************)
(* Session flow properties.                                                *)
(***************************************************************************)
\* C13: after a quiz start that serves the quiz, the scope's entries are
\* exactly current_quiz_type = "initial" and questions_served_for_analysis
\* = the repository's initial quiz in its order; weak_topics,
\* recommended_lessons and the remedial entries of the scope are absent.
C13_QuizStartResetsScope ==
  (response.op = "quiz" /\ response.status = 200 /\ response.page = "quiz.html") =>
    /\ HasCurrentScope
    /\ ScopeEntries(session) =
         (ScopeKey(session, "current_quiz_type") :> "initial")
         @@ (ScopeKey(session, "questions_served_for_analysis") :>
               GetQuizQuestions(session[KeyCurrentSubject],
                                session[KeyCurrentSubtopic]))

\* a quiz start while the "mastered" message of a generation is still
\* pending: the scope held an analysed, empty weak-topic list before
C13_Witness ==
  /\ response.op = "quiz"
  /\ response.status = 200
  /\ response.page = "quiz.html"
  /\ KeyQuizGenerationError \in DOMAIN session
  /\ session[KeyQuizGenerationError] = MsgMastered
  /\ ScopeKey(session, "weak_topics") \notin DOMAIN session

\* the scopes whose quiz can be served
ModelScopes == {<<SubjP, SubF>>, <<SubjP, SubF2>>}

\* the entries of a scope, as a function of their keys
EntriesOf(s, scope) ==
  [key \in {k \in DOMAIN s :
              \E t \in ScopeKeyTypes : k = get_session_key(scope[1], scope[2], t)}
     |-> s[key]]

\* the scope the request answered by this step operated on: the one in the
\* URL of a quiz start, the current one of the other learner requests
OperatedScopes ==
  IF response'.op = "quiz"
    THEN IF "subject" \in DOMAIN response'
           THEN {<<response'.subject, response'.subtopic>>}
           ELSE {<<session'[KeyCurrentSubject], session'[KeyCurrentSubtopic]>>}
  ELSE IF /\ response'.op \in {"analyze", "generate_remedial_quiz",
                               "take_remedial_quiz", "results"}
          /\ HasCurrentScope
    THEN {<<session[KeyCurrentSubject], session[KeyCurrentSubtopic]>>}
  ELSE {}

\* C14: a request that operates on one scope leaves every entry of every
\* other scope as it was.
C14_ScopesAreIndependent ==
  [][\A scope \in ModelScopes \ OperatedScopes :
       EntriesOf(session', scope) = EntriesOf(session, scope)]_vars

\* C15: an analysis requested when the session has no current scope, or no
\* served questions for it, answers "Quiz session data not found" with
\* status 400 and no score, does not call the classifier and leaves the
\* session as it was.
C15_AnalyzeNeedsServedQuiz ==
  [][(response'.op = "analyze" /\ (~HasCurrentScope \/ ServedQuestions = <<>>)) =>
       /\ response'.status = 400
       /\ response'.feedback = ErrSessionData
       /\ "score" \notin DOMAIN response'
       /\ ~classifier'.called
       /\ session' = session]_vars

\* the error for a scope that is current but has lost its served questions
C15_Witness ==
  /\ response.op = "analyze"
  /\ response.status = 400
  /\ HasCurrentScope
  /\ ScopeKey(session, "questions_served_for_analysis") \notin DOMAIN session

\* C16: a generation for a scope that was never analysed since its quiz
\* start (no weak_topics entry) reports the "no session" message; one for
\* a scope whose analysis stored an empty list reports the "mastered"
\* message.
C16_NeverAnalysedIsNotMastered ==
  (response.op = "generate_remedial_quiz" /\ HasCurrentScope) =>
    /\ ScopeKey(session, "weak_topics") \notin DOMAIN session =>
         session[KeyQuizGenerationError] = MsgSessionError
    /\ (/\ ScopeKey(session, "weak_topics") \in DOMAIN session
        /\ session[ScopeKey(session, "weak_topics")] = <<>>) =>
         session[KeyQuizGenerationError] = MsgMastered

\* C17: a results view shows the generation error pending in the session,
\* if any, and removes it, so that a results view following it with no
\* failing request in between shows none.
C17_GenerationErrorShownOnce ==
  [][response'.op = "results" =>
       /\ response'.quiz_generation_error = Get(session, KeyQuizGenerationError, None)
       /\ KeyQuizGenerationError \notin DOMAIN session'
       /\ (response.op = "results" => response'.quiz_generation_error = None)]_vars

\* a results view that showed the error of a remedial quiz page without a
\* remedial quiz and left none pending
C17_Witness ==
  /\ response.op = "results"
  /\ response.quiz_generation_error = MsgNoRemedial
  /\ KeyQuizGenerationError \notin DOMAIN session

\* the entries a generated remedial quiz would advance
RemedialKeyTypes ==
  {"current_quiz_type", "questions_served_for_analysis",
   "current_remedial_quiz_questions", "topics_for_current_remedial_quiz"}

\* C18: a generation from a non-empty weak-topic list that no pool question
\* shares a tag with reports the "no follow-up questions" message, which is
\* not the "mastered" one, and keeps current_quiz_type,
\* questions_served_for_analysis, current_remedial_quiz_questions and
\* topics_for_current_remedial_quiz of the scope as they were.
C18_NoFollowUpDoesNotAdvance ==
  [][(/\ response'.op = "generate_remedial_quiz"
      /\ HasCurrentScope
      /\ StoredWeakTopics # <<>>
      /\ \A k \in 1..Len(CurrentPool) : ~Intersects(CurrentPool[k], StoredWeakTopics)) =>
       /\ response'.redirect = "show_results_page"
       /\ session'[KeyQuizGenerationError] = MsgNoFollowUp
       /\ MsgNoFollowUp # MsgMastered
       /\ \A t \in RemedialKeyTypes :
            /\ ScopeKey(session, t) \in DOMAIN session'
                 <=> ScopeKey(session, t) \in DOMAIN session
            /\ ScopeKey(session, t) \in DOMAIN session =>
                 session'[ScopeKey(session, t)] = session[ScopeKey(session, t)]]_vars

\* the message during a remedial quiz whose analysis found weak topics the
\* pool has no question for: the remedial quiz stays as it was
C18_Witness ==
  /\ response.op = "generate_remedial_quiz"
  /\ KeyQuizGenerationError \in DOMAIN session
  /\ session[KeyQuizGenerationError] = MsgNoFollowUp
  /\ session[ScopeKey(session, "current_quiz_type")] = "remedial"
  /\ session[ScopeKey(session, "topics_for_current_remedial_quiz")] # StoredWeakTopics

(***************************************************************************)
(* DataLoader cache properties.                                            *)
(***************************************************************************)
\* the cache entries of the files of a subtopic
EntriesOfSubtopic(c, subject, subtopic) ==
  {key \in DOMAIN c :
     \E file_type \in {"quiz", "questions", "lessons", "videos"} :
       key = CacheKey(subject, subtopic, file_type)}

\* the last call cleared whatever the cache held for the subtopic
JustCleared(resp, subject, subtopic) ==
  \/ resp.op = "admin_clear_cache"
  \/ /\ resp.op = "clear_cache_for_subject_subtopic"
     /\ resp.subject = subject
     /\ resp.subtopic = subtopic

C20_ReadsAfterEditAreFresh ==
  (classifier.called /\ HasCurrentScope) =>
    classifier.allowed_keywords
      = subjectConfig[session[KeyCurrentSubject]].allowed_keywords

(***************************************************************************)
(* Lesson search properties, checked under FindSpec.                       *)
(***************************************************************************)
\* the lessons of the subtopics listed in the subject's configuration that
\* carry a target tag: subtopic, lesson id and the tags shared
Carriers(subject, target_tags) ==
  LET subtopics == IF subject \in DOMAIN subjectConfig
                     THEN subjectConfig[subject].subtopics ELSE <<>>
      Tags(lesson) == IF "tags" \in DOMAIN lesson THEN Range(lesson.tags) ELSE {}
  IN {<<subtopics[i].id, lesson.lesson_id, Tags(lesson) \cap Range(target_tags)>> :
        <<i, lesson>> \in
          {p \in (DOMAIN subtopics)
                   \X UNION {Range(lessonPlans[f]) : f \in DOMAIN lessonPlans} :
             /\ <<subject, subtopics[p[1]].id>> \in DOMAIN lessonPlans
             /\ p[2] \in Range(lessonPlans[<<subject, subtopics[p[1]].id>>])
             /\ Tags(p[2]) \cap Range(target_tags) # {}}}

\* C21: find_lessons_by_tags returns exactly one entry for each lesson, of
\* any subtopic listed in the subject's configuration, that shares a tag
\* with the targets, with matching_tags the tags shared; the current
\* subtopic plays no part, and nothing is returned when no lesson carries
\* a target tag.
C21_FindLessonsByTags ==
  response.op = "find_lessons_by_tags" =>
    LET result == response.matching_lessons
        carriers == Carriers(response.subject, response.target_tags)
    IN /\ {<<result[k].subtopic, result[k].lesson_id, result[k].matching_tags>> :
             k \in 1..Len(result)} = carriers
       /\ Len(result) = Cardinality(carriers)
       /\ \A k \in 1..Len(result) : result[k].subject = response.subject

\* a search, while the first subtopic is current, that found a lesson of
\* the second subtopic and one lesson for two of its targets
C21_Witness ==
  /\ response.op = "find_lessons_by_tags"
  /\ HasCurrentScope
  /\ session[KeyCurrentSubtopic] = SubF
  /\ response.target_tags = <<TagSub, TagAdd>>
  /\ Len(response.matching_lessons) = 2
  /\ response.matching_lessons[2].subtopic = SubF2
  /\ response.matching_lessons[2].matching_tags = {TagAdd, TagSub}

(***************************************************************************)
(* Vocabulary properties, checked under VocabSpec.                         *)
(***************************************************************************)
\* the reply reads as a JSON object whose weak_concept_tags, if any, is a
\* list; the tags it proposes
ProposesTagList(reply) ==
  /\ ~reply.failed
  /\ ReadsAsObject(reply.text, AnyMember)
  /\ reply.tags.kind = "list"

ProposedBy(reply) ==
  IF \E k \in 1..Len(reply.text) : reply.text[k] = TagsMember
    THEN Range(reply.tags.items) ELSE {}

AnalysisErrors == {ErrUnavailable, ErrNoJson, ErrInvalidFormat, ErrSessionData,
                   InternalServerError}

\* C22: an analysis whose reply is a well-formed object proposing only
\* tags outside the vocabulary it read (all of them when the vocabulary is
\* empty or the subject has no configuration) succeeds: it returns
\* weak_topics = [] with the score and no error message, and stores the
\* empty list for the scope.
C22_EmptyWeakTopicsIsSuccess ==
  (/\ classifier.called
   /\ ProposesTagList(classifier.reply)
   /\ ProposedBy(classifier.reply) \cap Range(classifier.allowed_keywords) = {}) =>
    /\ response.status = 200
    /\ response.weak_topics = <<>>
    /\ "score" \in DOMAIN response
    /\ response.feedback \notin AnalysisErrors
    /\ ScopeKey(session, "weak_topics") \in DOMAIN session
    /\ session[ScopeKey(session, "weak_topics")] = <<>>

\* an analysis for a subject without configuration whose reply proposed a
\* tag: it succeeded with no weak topic
C22_Witness ==
  /\ classifier.called
  /\ SubjP \notin DOMAIN subjectConfig
  /\ classifier.allowed_keywords = <<>>
  /\ ProposesTagList(classifier.reply)
  /\ TagAdd \in ProposedBy(classifier.reply)
  /\ response.status = 200
  /\ response.weak_topics = <<>>
  /\ session[ScopeKey(session, "weak_topics")] = <<>>

(***************************************************************************)
(* Grading pass properties, checked under GradeSpec.                       *)
(***************************************************************************)
\* a multiple_choice question whose answer_index is missing or outside
\* 0..len(options)-1
InvalidMultipleChoice(q) ==
  /\ Get(q, "type", "multiple_choice") = "multiple_choice"
  /\ \/ "answer_index" \notin DOMAIN q
     \/ q["answer_index"] \notin 0..(Len(Get(q, "options", <<>>)) - 1)

\* C23: a grading pass over a quiz with a multiple_choice question whose
\* answer_index is out of range or missing does not abort: it yields one
\* status per served question, in served order, Invalid Question Data for
\* the invalid one and for every other question the status it gets when
\* graded alone, and goes on to the classifier step.
C23_InvalidQuestionDoesNotAbort ==
  (gOut.done /\ \E i \in 1..Len(gQuiz) : InvalidMultipleChoice(gQuiz[i])) =>
    /\ ~gOut.result.raised
    /\ Len(gOut.result.statuses) = Len(gQuiz)
    /\ \A i \in 1..Len(gQuiz) :
         gOut.result.statuses[i] =
           IF InvalidMultipleChoice(gQuiz[i]) THEN "Invalid Question Data"
           ELSE GradeQuestion(gQuiz[i], UserAnswer(gSub, i - 1)).status

\* the positions of a status list that hold Correct
CorrectPositions(statuses) == {i \in 1..Len(statuses) : statuses[i] = "Correct"}

\* C25: in a grading pass the correct count is the number of questions
\* whose status is Correct and the total is the number of served
\* questions; a coding question is For AI Review whatever the answer, a
\* multiple_choice question with an answer_index out of range is Invalid
\* Question Data, and neither is counted as correct.
C25_CountsMatchStatuses ==
  Graded =>
    LET r == gOut.result
    IN /\ r.correct = Cardinality(CorrectPositions(r.statuses))
       /\ r.total = Len(gQuiz)
       /\ Len(r.statuses) = Len(gQuiz)
       /\ \A i \in 1..Len(gQuiz) :
            /\ IsType(gQuiz[i], "coding") => r.statuses[i] = "For AI Review"
            /\ (/\ IsType(gQuiz[i], "multiple_choice")
                /\ "answer_index" \in DOMAIN gQuiz[i]
                /\ InvalidMultipleChoice(gQuiz[i])) =>
                 r.statuses[i] = "Invalid Question Data"

\* a pass over a correct answer, a coding question and a question with an
\* answer_index out of range: one of three is counted
C25_Witness ==
  /\ Graded
  /\ Len(gQuiz) = 3
  /\ gOut.result.statuses = <<"Correct", "For AI Review", "Invalid Question Data">>
  /\ gOut.result.correct = 1
  /\ gOut.result.total = 3
  /\ 0 \in DOMAIN gSub /\ 1 \in DOMAIN gSub /\ 2 \in DOMAIN gSub

(***************************************************************************)
(* Content administration properties, checked under AdminSpec.             *)
(***************************************************************************)
\* the tags of the lessons and questions stored for a subject
StoredTags(subject) ==
  UNION {Range(Get(item, "tags", <<>>)) :
           item \in UNION {Range(store[f]) :
                             <<store, f>> \in
                               {p \in {quizData, questionPool, lessonPlans}
                                        \X (DOMAIN quizData \cup DOMAIN questionPool
                                              \cup DOMAIN lessonPlans) :
                                  p[2] \in DOMAIN p[1] /\ p[2][1] = subject}}}

\* C24: after any sequence of lesson creations and edits, quiz and pool
\* saves and keyword updates, every tag of a stored lesson or question of
\* a subject is in the subject's current allowed-keyword list.
C24_StoredTagsWithinVocabulary ==
  \A subject \in DOMAIN subjectConfig :
    StoredTags(subject) \subseteq Range(subjectConfig[subject].allowed_keywords)

(***************************************************************************)
(* Lesson choice properties, checked under ResultsSpec.                    *)
(***************************************************************************)
\* the recommended lessons stored for the current scope
StoredRecommended ==
  IF HasCurrentScope
    THEN Get(session, ScopeKey(session, "recommended_lessons"), <<>>)
    ELSE <<>>

\* where a recommended lesson is met by a walk over the subtopics in the
\* order of the subject's configuration, each file in its own order
EncounterRank(info) ==
  LET subtopics == subjectConfig[info.subject].subtopics
      i == CHOOSE i \in DOMAIN subtopics : subtopics[i].id = info.subtopic
      lessons == lessonPlans[<<info.subject, info.subtopic>>]
      k == CHOOSE k \in DOMAIN lessons : lessons[k].lesson_id = info.lesson_id
  IN <<i, k>>

RankBefore(a, b) == a[1] < b[1] \/ (a[1] = b[1] /\ a[2] < b[2])

\* the number of the lesson's tags that contain the topic or are contained
\* in it, ignoring case
RelevanceScore(info, topic) ==
  Cardinality({tag \in Range(info.tags) :
                 \/ IsSubstring(Lower(topic), Lower(tag))
                 \/ IsSubstring(Lower(tag), Lower(topic))})

\* the recommended lessons matching the topic no other one beats: none
\* scores higher, and none scoring the same is encountered earlier
BestFor(recommended, topic) ==
  {k \in 1..Len(recommended) :
     /\ topic \in recommended[k].matching_tags
     /\ \A j \in 1..Len(recommended) :
          (j # k /\ topic \in recommended[j].matching_tags) =>
            \/ RelevanceScore(recommended[j], topic)
                 < RelevanceScore(recommended[k], topic)
            \/ /\ RelevanceScore(recommended[j], topic)
                    = RelevanceScore(recommended[k], topic)
               /\ RankBefore(EncounterRank(recommended[k]),
                             EncounterRank(recommended[j]))}

\* C26: on the results view each weak tag with a recommended lesson
\* matching it shows one of maximum relevance score, and among those of
\* equal score the one encountered first: subtopics in the order of the
\* subject's configuration, lessons in the order of their file.
C26_MostRelevantLessonPerTag ==
  (response.op = "results" /\ StoredRecommended # <<>>) =>
    \A topic \in Range(StoredWeakTopics) :
      (\E k \in 1..Len(StoredRecommended) :
         topic \in StoredRecommended[k].matching_tags) =>
        /\ topic \in DOMAIN response.LESSON_PLANS
        /\ \E k \in BestFor(StoredRecommended, topic) :
             /\ response.LESSON_PLANS[topic].lesson_id = StoredRecommended[k].lesson_id
             /\ response.LESSON_PLANS[topic] \in
                  Range(lessonPlans[<<StoredRecommended[k].subject,
                                      StoredRecommended[k].subtopic>>])

\* one lesson of the first subtopic shown for two weak tags, for one of
\* them ahead of an equally relevant lesson of the second subtopic
C26_Witness ==
  /\ response.op = "results"
  /\ StoredWeakTopics = <<TagSub, TagAdd>>
  /\ Len(StoredRecommended) = 2
  /\ StoredRecommended[2].subtopic = SubF2
  /\ RelevanceScore(StoredRecommended[1], TagAdd)
       = RelevanceScore(StoredRecommended[2], TagAdd)
  /\ DOMAIN response.LESSON_PLANS = {TagAdd, TagSub}
  /\ response.LESSON_PLANS[TagAdd] = response.LESSON_PLANS[TagSub]
  /\ response.LESSON_PLANS[TagAdd].lesson_id = StoredRecommended[1].lesson_id

(***************************************************************************)
(* Derived session data properties, checked under Spec.                    *)
(***************************************************************************)
\* C28: the recommended_lessons entry of the current scope, when present,
\* is the result of the lesson search for the weak topics now stored for
\* the scope, and a stored remedial quiz is the selection for them: after
\* an analysis that stores a different or empty weak-topic list nothing
\* computed for the previous list remains.
C28_DerivedDataFollowsWeakTopics ==
  HasCurrentScope =>
    /\ ScopeKey(session, "recommended_lessons") \in DOMAIN session =>
         session[ScopeKey(session, "recommended_lessons")]
           = FindLessonsByTags([found |-> TRUE,
                                data |-> subjectConfig[session[KeyCurrentSubject]],
                                cache |-> cache],
                               session[KeyCurrentSubject], StoredWeakTopics)
    /\ ScopeKey(session, "current_remedial_quiz_questions") \in DOMAIN session =>
         session[ScopeKey(session, "current_remedial_quiz_questions")]
           = SubsequenceAt(CurrentPool,
                           FirstOccurrences(CurrentPool, StoredWeakTopics))

(***************************************************************************)
(* Quiz start properties, checked under ScopeSpec.                         *)
(***************************************************************************)
\* the quiz start answered by this step served no quiz
QuizNotServed(resp) ==
  /\ resp.op = "quiz"
  /\ \/ resp.status = 404
     \/ resp.page = "prerequisites_error.html"

\* C29: a quiz start that ends with a 404 (unknown subject or subtopic, or
\* a quiz without questions) or with the prerequisites page leaves the
\* session as it was: no entry of any scope is removed or written, and
\* current_subject and current_subtopic keep their values.
C29_UnservedQuizStartKeepsSession ==
  [][QuizNotServed(response') => session' = session]_vars

(***************************************************************************)
(* Cache key properties, checked under CacheKeySpec.                       *)
(***************************************************************************)
\* C30: whatever loads and clears came before, and whatever the
\* identifiers are, a load of the lessons of a subtopic returns the
\* content of that subject's and subtopic's own file, and a load of a
\* subject's configuration that subject's own; no file is rewritten here.
C30_CacheReturnsOwnScope ==
  /\ response.op = "load_lesson_plans" =>
       response.data = Get(lessonPlans, <<response.subject, response.subtopic>>, None)
  /\ response.op = "load_subject_config" =>
       response.data = Get(subjectConfig, response.subject, None)

(***************************************************************************)
(* Remedial state properties, checked under PrefixSpec.                    *)
(***************************************************************************)
\* the scopes of the subjects' configurations
ConfiguredScopes ==
  {<<subject, subjectConfig[subject].subtopics[i].id>> :
     <<subject, i>> \in
       {p \in (DOMAIN subjectConfig) \X (1..4) :
          p[2] \in DOMAIN subjectConfig[p[1]].subtopics}}

\* C27: whenever current_quiz_type of a scope is "remedial", the scope's
\* questions_served_for_analysis is its current_remedial_quiz_questions,
\* that list is not empty, topics_for_current_remedial_quiz is not empty,
\* and every question of the list has a tag among those topics.
C27_RemedialStateIsConsistent ==
  \A scope \in ConfiguredScopes :
    LET Key(key_type) == get_session_key(scope[1], scope[2], key_type)
    IN (/\ Key("current_quiz_type") \in DOMAIN session
        /\ session[Key("current_quiz_type")] = "remedial") =>
         /\ Key("questions_served_for_analysis") \in DOMAIN session
         /\ Key("current_remedial_quiz_questions") \in DOMAIN session
         /\ Key("topics_for_current_remedial_quiz") \in DOMAIN session
         /\ session[Key("questions_served_for_analysis")]
              = session[Key("current_remedial_quiz_questions")]
         /\ session[Key("current_remedial_quiz_questions")] # <<>>
         /\ session[Key("topics_for_current_remedial_quiz")] # <<>>
         /\ \A k \in 1..Len(session[Key("current_remedial_quiz_questions")]) :
              Intersects(session[Key("current_remedial_quiz_questions")][k],
                         session[Key("topics_for_current_remedial_quiz")])

====
